---- MODULE Spec2Model ----
(***************************************************************************)
(* A model of the XML document construction engine of rpub                 *)
(* (src/src/xml/parse.rs): the text and attribute-value normalizers as     *)
(* operators over byte sequences, and the tree builder (Context) as a      *)
(* state machine driven by the events of the tokenizer.                    *)
(***************************************************************************)
EXTENDS Integers, Sequences, FiniteSets, TLC

VARIABLES
    nodes, attributes, ns_values, tree_order,
    namespace_start_idx, current_attributes, awaiting_subtree,
    parent_prefixes, after_text, parent_id, tag_name,
    in_tag, last_token, limits, nodes_limit, attributes_base, nattrs, ntexts,
    result, err_info,
    raw, norm, renorm, step,
    araw, anorm, astep,
    book, chp_num, lines, scroll, last_size, terminal_size, reading,
    package, manifest, nav, chapters, toc, spine_idx, loaded

vars == << nodes, attributes, ns_values, tree_order,
           namespace_start_idx, current_attributes, awaiting_subtree,
           parent_prefixes, after_text, parent_id, tag_name,
           in_tag, last_token, limits, nodes_limit, attributes_base, nattrs, ntexts,
           result, err_info,
           raw, norm, renorm, step,
           araw, anorm, astep,
           book, chp_num, lines, scroll, last_size, terminal_size, reading,
           package, manifest, nav, chapters, toc, spine_idx, loaded >>

treeVars == << nodes, attributes, ns_values, tree_order,
               namespace_start_idx, current_attributes, awaiting_subtree,
               parent_prefixes, after_text, parent_id, tag_name,
               in_tag, last_token, limits, nodes_limit, attributes_base, nattrs, ntexts,
               result, err_info >>

textVars == << raw, norm, renorm, step >>

attrVars == << araw, anorm, astep >>

readerVars == << book, chp_num, lines, scroll, last_size, terminal_size, reading >>

epubVars == << package, manifest, nav, chapters, toc, spine_idx, loaded >>

appVars == << readerVars, epubVars >>

----------------------------------------------------------------------------
(* Bytes.  A byte is a one-symbol string; a text is a sequence of bytes.   *)

CR == "CR"

LF == "LF"

TAB == "TAB"

SP == " "

AMP == "&"

\* Option<u8>::None / Option<NodeId>::None
NoByte == "EOF"

\* The sources of the references the scanner decodes in this model.
RefCR == << "&", "#", "1", "3", ";" >>

RefLF == << "&", "#", "1", "0", ";" >>

RefTAB == << "&", "#", "9", ";" >>

RefAmp == << "&", "a", "m", "p", ";" >>

RefEacute == << "&", "#", "2", "3", "3", ";" >>

\* A lone ampersand: not a reference.
BareAmp == << "&" >>

\* A well-formed named reference to an entity that nothing defines.
RefUndefined == << "&", "n", "o", ";" >>

RefTable ==
    { [src |-> RefCR, ch |-> CR],
      [src |-> RefLF, ch |-> LF],
      [src |-> RefTAB, ch |-> TAB],
      [src |-> RefAmp, ch |-> AMP],
      [src |-> RefEacute, ch |-> "e-acute"] }

IsPrefixAt(src, bytes, pos) ==
    /\ pos + Len(src) - 1 <= Len(bytes)
    /\ SubSeq(bytes, pos, pos + Len(src) - 1) = src

\* Stream::try_consume_reference: Some(Reference::Char(ch)) and the stream
\* advanced past the reference, or None and the stream where it was.
try_consume_reference(bytes, pos) ==
    IF \E r \in RefTable : IsPrefixAt(r.src, bytes, pos)
    THEN LET r == CHOOSE r \in RefTable : IsPrefixAt(r.src, bytes, pos)
         IN  [some |-> TRUE, ch |-> r.ch, pos |-> pos + Len(r.src)]
    ELSE [some |-> FALSE, ch |-> NoByte, pos |-> pos]

\* CharToBytes: the UTF-8 bytes of a char, one to four of them.
CharToBytes(c) ==
    IF c = "e-acute" THEN << "0xC3", "0xA9" >> ELSE << c >>

\* Stream::curr_byte().ok()
curr_byte(bytes, pos) ==
    IF pos > Len(bytes) THEN NoByte ELSE bytes[pos]

----------------------------------------------------------------------------
(* TextBuffer *)

push_raw(buffer, c) == Append(buffer, c)

\* push_from_attr without the skip of a CR that a LF follows.
push_from_attr_no_pair(buffer, current, next) ==
    Append(buffer, IF current \in {LF, CR, TAB} THEN SP ELSE current)

push_from_attr(buffer, current, next) ==
    IF current = CR /\ next = LF
    THEN buffer
    ELSE Append(buffer, IF current \in {LF, CR, TAB} THEN SP ELSE current)

\* push_from_text without the turn of a CR at the end of the chunk.
push_from_text_last_cr(buffer, c, at_end) ==
    IF Len(buffer) > 0 /\ buffer[Len(buffer)] = CR
    THEN LET fixed == [buffer EXCEPT ![Len(buffer)] = LF]
         IN  IF c # LF THEN Append(fixed, c) ELSE fixed
    ELSE Append(buffer, c)

push_from_text(buffer, c, at_end) ==
    IF Len(buffer) > 0 /\ buffer[Len(buffer)] = CR
    THEN LET fixed == [buffer EXCEPT ![Len(buffer)] = LF]
         IN  IF at_end /\ c = CR THEN Append(fixed, LF)
             ELSE IF c # LF THEN Append(fixed, c)
             ELSE fixed
    ELSE IF at_end /\ c = CR THEN Append(buffer, LF)
    ELSE Append(buffer, c)

----------------------------------------------------------------------------
(* Text normalization *)

\* The match on try_consume_reference() of parse_next_chunk.
reference_chunk(r) ==
    IF r.some THEN [kind |-> "Char", c |-> r.ch, pos |-> r.pos]
    ELSE [kind |-> "MalformedEntityReference", c |-> NoByte, pos |-> r.pos]

\* parse_next_chunk: NextChunk::Byte, NextChunk::Char or the error.
parse_next_chunk(bytes, pos) ==
    IF bytes[pos] = AMP
    THEN reference_chunk(try_consume_reference(bytes, pos))
    ELSE [kind |-> "Byte", c |-> bytes[pos], pos |-> pos + 1]

RECURSIVE text_loop_no_as_is(_, _, _, _)
\* The loop of process_text passing the byte after a reference through
\* push_from_text like any other.
text_loop_no_as_is(bytes, pos, buffer, is_as_is) ==
    IF pos > Len(bytes)
    THEN [kind |-> "Ok", text |-> buffer]
    ELSE LET chunk == parse_next_chunk(bytes, pos)
         IN  CASE chunk.kind = "Byte" ->
                    text_loop_no_as_is(bytes, chunk.pos,
                                       push_from_text(buffer, chunk.c,
                                                      chunk.pos > Len(bytes)),
                                       FALSE)
               [] chunk.kind = "Char" ->
                    text_loop_no_as_is(bytes, chunk.pos,
                                       buffer \o CharToBytes(chunk.c), TRUE)
               [] OTHER -> [kind |-> chunk.kind, text |-> << >>]

RECURSIVE text_loop(_, _, _, _)
\* The while loop of process_text over the stream of one chunk.
text_loop(bytes, pos, buffer, is_as_is) ==
    IF pos > Len(bytes)
    THEN [kind |-> "Ok", text |-> buffer]
    ELSE LET chunk == parse_next_chunk(bytes, pos)
         IN  CASE chunk.kind = "Byte" ->
                    IF is_as_is
                    THEN text_loop(bytes, chunk.pos, push_raw(buffer, chunk.c), FALSE)
                    ELSE text_loop(bytes, chunk.pos,
                                   push_from_text(buffer, chunk.c, chunk.pos > Len(bytes)),
                                   FALSE)
               [] chunk.kind = "Char" ->
                    text_loop(bytes, chunk.pos, buffer \o CharToBytes(chunk.c), TRUE)
               [] OTHER -> [kind |-> chunk.kind, text |-> << >>]

HasAmpOrCR(bytes) == \E i \in 1..Len(bytes) : bytes[i] = AMP \/ bytes[i] = CR

\* The text process_text hands to append_text for one chunk, or its error.
normalize_text(bytes) ==
    IF ~ HasAmpOrCR(bytes)
    THEN [kind |-> "Ok", text |-> bytes]
    ELSE text_loop(bytes, 1, << >>, FALSE)

----------------------------------------------------------------------------
(* Attribute-value normalization *)

is_normalization_required(bytes) ==
    \E i \in 1..Len(bytes) : bytes[i] \in {AMP, TAB, LF, CR}

RECURSIVE _normalize_attribute(_, _, _)
_normalize_attribute(bytes, pos, buffer) ==
    IF pos > Len(bytes)
    THEN [kind |-> "Ok", text |-> buffer]
    ELSE IF bytes[pos] # AMP
    THEN _normalize_attribute(bytes, pos + 1,
                              push_from_attr(buffer, bytes[pos], curr_byte(bytes, pos + 1)))
    ELSE LET r == try_consume_reference(bytes, pos)
         IN  IF r.some
             THEN _normalize_attribute(bytes, r.pos, buffer \o CharToBytes(r.ch))
             ELSE [kind |-> "MalformedEntityReference", text |-> << >>]

normalize_attribute(bytes) ==
    IF is_normalization_required(bytes)
    THEN _normalize_attribute(bytes, 1, << >>)
    ELSE [kind |-> "Ok", text |-> bytes]

----------------------------------------------------------------------------
(* Inputs of the normalizers: a chunk is a sequence of lexical items, each *)
(* a literal byte or the source of one reference.                          *)

MaxLen == 4

MaxAttrLen == 4

TextItems ==
    { << "a" >>, << CR >>, << LF >>, RefCR, RefAmp, RefEacute, BareAmp }

AttrItems ==
    { << "x" >>, << TAB >>, << LF >>, << CR >>, RefCR, RefTAB, BareAmp }

SeqsUpTo(S, n) == UNION { [1..k -> S] : k \in 1..n }

RECURSIVE Flatten(_)
\* The bytes of a chunk as they stand in the document text.
Flatten(items) ==
    IF items = << >> THEN << >> ELSE Head(items) \o Flatten(Tail(items))

IsRef(item) == \E r \in RefTable : r.src = item

IsLiteral(item) == Len(item) = 1 /\ item # BareAmp

Decoded(item) == (CHOOSE r \in RefTable : r.src = item).ch

NoResult == [kind |-> "None", text |-> << >>]

\* tokenizer::Token; kind is ElementStart, Attribute, Text, or the ElementEnd
\* variant Open, Empty or Close. value is the raw span of an attribute value
\* or of a text.
Token(kind, prefix, local, value) ==
    [kind |-> kind, prefix |-> prefix, local |-> local, value |-> value]

NoToken == Token("None", "", "", << >>)

\* A usize too large for one integer of the checker: hi * 2^16 + lo.
Wide(hi, lo) == [hi |-> hi, lo |-> lo]

\* w + n
wide_add(w, n) == Wide(w.hi + (w.lo + n) \div 65536, (w.lo + n) % 65536)

\* w > core::u32::MAX
ge_u32_max_strict(w) == w.hi > 65535

\* w >= core::u32::MAX, that is w >= 2^32 - 1
ge_u32_max(w) == w.hi > 65535 \/ (w.hi = 65535 /\ w.lo >= 65535)

\* The attributes of earlier elements that the model does not hold: none
\* when the whole document is modelled.
NoEarlier == Wide(0, 0)

\* No ParsingOptions: Document::parse takes the text only.
NoLimit == "None"

\* The tree builder at rest, while a normalizer is checked on its own.
IdleTree ==
    /\ nodes = << >>
    /\ attributes = << >>
    /\ ns_values = << >>
    /\ tree_order = << >>
    /\ namespace_start_idx = 0
    /\ current_attributes = << >>
    /\ awaiting_subtree = << >>
    /\ parent_prefixes = << >>
    /\ after_text = FALSE
    /\ parent_id = 0
    /\ tag_name = [prefix |-> "", name |-> ""]
    /\ in_tag = FALSE
    /\ last_token = NoToken
    /\ limits = [nodes |-> 0, attrs |-> 0, texts |-> 0]
    /\ nodes_limit = NoLimit
    /\ attributes_base = NoEarlier
    /\ nattrs = 0
    /\ ntexts = 0
    /\ result = "Idle"
    /\ err_info = << >>

IdleText ==
    /\ raw = << >>
    /\ norm = NoResult
    /\ renorm = NoResult
    /\ step = "idle"

IdleAttr ==
    /\ araw = << >>
    /\ anorm = NoResult
    /\ astep = "idle"

IdleReader ==
    /\ book = << >>
    /\ chp_num = 0
    /\ lines = << >>
    /\ scroll = 0
    /\ last_size = << 0, 0 >>
    /\ terminal_size = << 0, 0 >>
    /\ reading = "idle"

IdleEpub ==
    /\ package = [manifest |-> << >>, toc |-> << >>, spine |-> << >>]
    /\ manifest = << >>
    /\ nav = << >>
    /\ chapters = << >>
    /\ toc = << >>
    /\ spine_idx = 0
    /\ loaded = "idle"

IdleApp == IdleReader /\ IdleEpub

----------------------------------------------------------------------------
(* SpecText: process_text applied to one chunk, then to its own output.    *)

InitText ==
    /\ IdleTree
    /\ IdleApp
    /\ IdleAttr
    /\ raw \in SeqsUpTo(TextItems, MaxLen)
    /\ norm = NoResult
    /\ renorm = NoResult
    /\ step = "input"

NormalizeText ==
    /\ step = "input"
    /\ norm' = normalize_text(Flatten(raw))
    /\ step' = "normalized"
    /\ UNCHANGED << raw, renorm >>
    /\ UNCHANGED << treeVars, attrVars, appVars >>

\* The stored text parsed again as the text of a minimal element.
RenormalizeText ==
    /\ step = "normalized"
    /\ norm.kind = "Ok"
    /\ renorm' = normalize_text(norm.text)
    /\ step' = "renormalized"
    /\ UNCHANGED << raw, norm >>
    /\ UNCHANGED << treeVars, attrVars, appVars >>

NextText == NormalizeText \/ RenormalizeText

SpecText == InitText /\ [][NextText]_vars

----------------------------------------------------------------------------
(* SpecAttr: normalize_attribute applied to one attribute value.           *)

InitAttr ==
    /\ IdleTree
    /\ IdleApp
    /\ IdleText
    /\ araw \in SeqsUpTo(AttrItems, MaxAttrLen)
    /\ anorm = NoResult
    /\ astep = "input"

NormalizeAttr ==
    /\ astep = "input"
    /\ anorm' = normalize_attribute(Flatten(araw))
    /\ astep' = "normalized"
    /\ UNCHANGED araw
    /\ UNCHANGED << treeVars, textVars, appVars >>

NextAttr == NormalizeAttr

SpecAttr == InitAttr /\ [][NextAttr]_vars

----------------------------------------------------------------------------
(* SpecRefs: one value with references normalized as a text and as an      *)
(* attribute value.                                                        *)

MaxRefLen == 3

RefItems ==
    { << "a" >>, << CR >>, << LF >>, << TAB >>, RefCR, RefLF, RefTAB,
      BareAmp, RefUndefined }

InitRefs ==
    /\ IdleTree
    /\ IdleApp
    /\ raw \in SeqsUpTo(RefItems, MaxRefLen)
    /\ araw = raw
    /\ norm = NoResult
    /\ renorm = NoResult
    /\ anorm = NoResult
    /\ step = "input"
    /\ astep = "input"

NextRefs == NormalizeText \/ NormalizeAttr

SpecRefs == InitRefs /\ [][NextRefs]_vars

----------------------------------------------------------------------------
(* The document under construction and the builder's Context.              *)

\* Option<NodeId>::None, Option<NamespaceIdx>::None
NoneId == -1

\* Option<&str>::None as the name of a namespace (the default namespace)
NoName == "None"

XMLNS == "xmlns"

NS_XML_PREFIX == "xml"

\* A URI is held as one symbol of an attribute value.
NS_XML_URI == << "http://www.w3.org/XML/1998/namespace" >>

NS_XMLNS_URI == << "http://www.w3.org/2000/xmlns/" >>

\* ctx.doc.attributes.len()
attributes_len(c) == wide_add(c.attributes_base, Len(c.attributes))

ShortRange(s, e) == [start |-> s, end |-> e]

\* NodeData with NodeKind::Root
RootNode ==
    [parent |-> NoneId, prev_sibling |-> NoneId, next_subtree |-> NoneId,
     last_child |-> NoneId, kind |-> "Root", tag_ns |-> NoneId, local_name |-> "",
     attributes |-> ShortRange(0, 0), namespaces |-> ShortRange(0, 0), text |-> << >>]

\* NodeKind::Element { tag_name, attributes, namespaces }
ElementKind(ns_idx, local, attrs, nss) ==
    [RootNode EXCEPT !.kind = "Element", !.tag_ns = ns_idx, !.local_name = local,
                     !.attributes = attrs, !.namespaces = nss]

\* NodeKind::Text(text)
TextKind(text) == [RootNode EXCEPT !.kind = "Text", !.text = text]

\* The builder and its document as one value.
Ctx ==
    [nodes |-> nodes, attributes |-> attributes, ns_values |-> ns_values,
     tree_order |-> tree_order, namespace_start_idx |-> namespace_start_idx,
     current_attributes |-> current_attributes, awaiting_subtree |-> awaiting_subtree,
     parent_prefixes |-> parent_prefixes, after_text |-> after_text,
     parent_id |-> parent_id, tag_name |-> tag_name,
     attributes_base |-> attributes_base,
     result |-> result, err_info |-> err_info]

Install(c) ==
    /\ nodes' = c.nodes
    /\ attributes' = c.attributes
    /\ ns_values' = c.ns_values
    /\ tree_order' = c.tree_order
    /\ namespace_start_idx' = c.namespace_start_idx
    /\ current_attributes' = c.current_attributes
    /\ awaiting_subtree' = c.awaiting_subtree
    /\ parent_prefixes' = c.parent_prefixes
    /\ after_text' = c.after_text
    /\ parent_id' = c.parent_id
    /\ tag_name' = c.tag_name
    /\ result' = c.result
    /\ err_info' = c.err_info

\* return Err(kind(info..))
Fail(c, kind, info) == [c EXCEPT !.result = kind, !.err_info = info]

Min(S) == CHOOSE x \in S : \A y \in S : x <= y

----------------------------------------------------------------------------
(* Namespaces: the values and the tree-order log of indexes into them.     *)

ns_get(c, idx) == c.ns_values[idx + 1]

ns_exists(c, start, name) ==
    \E k \in (start + 1)..Len(c.tree_order) : ns_get(c, c.tree_order[k]).name = name

push_ns(c, name, uri) ==
    LET same == { i \in 1..Len(c.ns_values) :
                    c.ns_values[i] = [name |-> name, uri |-> uri] }
    IN  IF same # {}
        THEN [c EXCEPT !.tree_order = Append(c.tree_order, Min(same) - 1)]
        ELSE [c EXCEPT !.ns_values = Append(c.ns_values, [name |-> name, uri |-> uri]),
                       !.tree_order = Append(c.tree_order, Len(c.ns_values))]

push_ref(c, i) == [c EXCEPT !.tree_order = Append(c.tree_order, c.tree_order[i + 1])]

\* ExpandedNameIndexed::as_expanded_name: (namespace URI, local name)
as_expanded_name(c, ns_idx, local) ==
    [uri |-> IF ns_idx = NoneId THEN << NoName >> ELSE ns_get(c, ns_idx).uri,
     name |-> local]

----------------------------------------------------------------------------
(* Context::append_node *)

\* append_node without the link to the previous sibling.
link_node_no_sibling(c, kind) ==
    [c.nodes EXCEPT ![c.parent_id + 1].last_child = Len(c.nodes)]
        \o << [kind EXCEPT !.parent = c.parent_id] >>

\* append_node writing the previous sibling into the parent instead of
\* the new node.
link_node_into_parent(c, kind) ==
    [c.nodes EXCEPT ![c.parent_id + 1].last_child = Len(c.nodes),
                    ![c.parent_id + 1].prev_sibling = c.nodes[c.parent_id + 1].last_child]
        \o << [kind EXCEPT !.parent = c.parent_id] >>

\* append_node leaving last_child of the parent as it was.
link_node_keep_last_child(c, kind) ==
    c.nodes \o << [kind EXCEPT !.parent = c.parent_id,
                               !.prev_sibling = c.nodes[c.parent_id + 1].last_child] >>

\* The push of the new node and the sibling links of append_node.
link_node(c, kind) ==
    [c.nodes EXCEPT ![c.parent_id + 1].last_child = Len(c.nodes)]
        \o << [kind EXCEPT !.parent = c.parent_id,
                           !.prev_sibling = c.nodes[c.parent_id + 1].last_child] >>

\* The loop of append_node patching the first awaiting node only.
patch_awaiting_first(linked, awaiting, new_child_id) ==
    [i \in 1..Len(linked) |->
        IF Len(awaiting) > 0 /\ awaiting[1] = i - 1
        THEN [linked[i] EXCEPT !.next_subtree = new_child_id]
        ELSE linked[i]]

\* for id in &self.awaiting_subtree { nodes[id].next_subtree = Some(new_child_id) }
patch_awaiting(linked, awaiting, new_child_id) ==
    [i \in 1..Len(linked) |->
        IF \E k \in 1..Len(awaiting) : awaiting[k] = i - 1
        THEN [linked[i] EXCEPT !.next_subtree = new_child_id]
        ELSE linked[i]]

\* append_node without self.awaiting_subtree.clear().
append_node_keep_awaiting(c, kind) ==
    [c EXCEPT !.nodes = patch_awaiting(link_node(c, kind), c.awaiting_subtree,
                                       Len(c.nodes)),
              !.awaiting_subtree = IF kind.kind # "Element"
                                   THEN Append(c.awaiting_subtree, Len(c.nodes))
                                   ELSE c.awaiting_subtree]

append_node(c, kind) ==
    [c EXCEPT !.nodes = patch_awaiting(link_node(c, kind), c.awaiting_subtree,
                                       Len(c.nodes)),
              !.awaiting_subtree = IF kind.kind # "Element"
                                   THEN << Len(c.nodes) >> ELSE << >>]

----------------------------------------------------------------------------
(* process_attribute *)

\* process_attribute without the check that keeps the XML namespace URI from
\* a prefix other than xml.
declare_or_stage_any_xml_uri(c, prefix, local, v) ==
    IF v.kind # "Ok" THEN Fail(c, v.kind, << >>)
    ELSE IF prefix = XMLNS
    THEN IF v.text = NS_XMLNS_URI THEN Fail(c, "UnexpectedXmlnsUri", << >>)
         ELSE IF local = NS_XML_PREFIX /\ v.text # NS_XML_URI
         THEN Fail(c, "InvalidXmlPrefixUri", << >>)
         ELSE IF ns_exists(c, c.namespace_start_idx, local)
         THEN Fail(c, "DuplicatedNamespace", << local >>)
         ELSE IF v.text # NS_XML_URI THEN push_ns(c, local, v.text)
         ELSE c
    ELSE IF local = XMLNS
    THEN IF v.text = NS_XML_URI THEN Fail(c, "UnexpectedXmlUri", << >>)
         ELSE IF v.text = NS_XMLNS_URI THEN Fail(c, "UnexpectedXmlnsUri", << >>)
         ELSE push_ns(c, NoName, v.text)
    ELSE [c EXCEPT !.current_attributes =
             Append(c.current_attributes,
                    [prefix |-> prefix, local |-> local, value |-> v.text])]

\* process_attribute once the value is normalized: a namespace declaration
\* is registered, any other attribute is staged.
declare_or_stage(c, prefix, local, v) ==
    IF v.kind # "Ok" THEN Fail(c, v.kind, << >>)
    ELSE IF prefix = XMLNS
    THEN IF v.text = NS_XMLNS_URI THEN Fail(c, "UnexpectedXmlnsUri", << >>)
         ELSE IF local = NS_XML_PREFIX /\ v.text # NS_XML_URI
         THEN Fail(c, "InvalidXmlPrefixUri", << >>)
         ELSE IF local # NS_XML_PREFIX /\ v.text = NS_XML_URI
         THEN Fail(c, "UnexpectedXmlUri", << >>)
         ELSE IF ns_exists(c, c.namespace_start_idx, local)
         THEN Fail(c, "DuplicatedNamespace", << local >>)
         ELSE IF v.text # NS_XML_URI THEN push_ns(c, local, v.text)
         ELSE c
    ELSE IF local = XMLNS
    THEN IF v.text = NS_XML_URI THEN Fail(c, "UnexpectedXmlUri", << >>)
         ELSE IF v.text = NS_XMLNS_URI THEN Fail(c, "UnexpectedXmlnsUri", << >>)
         ELSE push_ns(c, NoName, v.text)
    ELSE [c EXCEPT !.current_attributes =
             Append(c.current_attributes,
                    [prefix |-> prefix, local |-> local, value |-> v.text])]

process_attribute(c, prefix, local, rawvalue) ==
    declare_or_stage(c, prefix, local, normalize_attribute(rawvalue))

----------------------------------------------------------------------------
(* Context::resolve_namespaces, get_ns_idx_by_prefix, resolve_attributes *)

\* resolve_namespaces without the loop over the parent's range.
ns_inherit_nothing(c, i, end) == c

RECURSIVE ns_inherit(_, _, _)
\* The for loop over the parent's range: a binding the element does not
\* redeclare is pushed again by reference.
ns_inherit(c, i, end) ==
    IF i >= end THEN c
    ELSE LET name == ns_get(c, c.tree_order[i + 1]).name
         IN  ns_inherit(IF ~ ns_exists(c, c.namespace_start_idx, name)
                        THEN push_ref(c, i) ELSE c,
                        i + 1, end)

\* (self.namespace_start_idx..self.doc.namespaces.tree_order.len()).into()
own_range(c, start) == [ctx |-> c, range |-> ShortRange(start, Len(c.tree_order))]

\* resolve_namespaces without the early return of the parent's range.
resolve_namespaces_always_copy(c) ==
    IF c.nodes[c.parent_id + 1].kind = "Element"
    THEN own_range(ns_inherit(c, c.nodes[c.parent_id + 1].namespaces.start,
                              c.nodes[c.parent_id + 1].namespaces.end),
                   c.namespace_start_idx)
    ELSE own_range(c, c.namespace_start_idx)

resolve_namespaces(c) ==
    IF c.nodes[c.parent_id + 1].kind = "Element"
    THEN IF c.namespace_start_idx = Len(c.tree_order)
         THEN [ctx |-> c, range |-> c.nodes[c.parent_id + 1].namespaces]
         ELSE own_range(ns_inherit(c, c.nodes[c.parent_id + 1].namespaces.start,
                                   c.nodes[c.parent_id + 1].namespaces.end),
                        c.namespace_start_idx)
    ELSE own_range(c, c.namespace_start_idx)

\* The first index of the range whose namespace has the name, if any.
find_ns(c, namespaces, prefix_opt) ==
    { k \in (namespaces.start + 1)..namespaces.end :
        /\ ns_get(c, c.tree_order[k]).name = prefix_opt
        /\ \A j \in (namespaces.start + 1)..(k - 1) :
              ns_get(c, c.tree_order[j]).name # prefix_opt }

\* get_ns_idx_by_prefix taking a prefix it does not find for no namespace.
get_ns_idx_by_prefix_lenient(c, namespaces, prefix) ==
    IF find_ns(c, namespaces, IF prefix = "" THEN NoName ELSE prefix) # {}
    THEN [kind |-> "Ok",
          idx |-> c.tree_order[CHOOSE k \in find_ns(c, namespaces,
                                     IF prefix = "" THEN NoName ELSE prefix) : TRUE]]
    ELSE [kind |-> "Ok", idx |-> NoneId]

get_ns_idx_by_prefix(c, namespaces, prefix) ==
    IF find_ns(c, namespaces, IF prefix = "" THEN NoName ELSE prefix) # {}
    THEN [kind |-> "Ok",
          idx |-> c.tree_order[CHOOSE k \in find_ns(c, namespaces,
                                     IF prefix = "" THEN NoName ELSE prefix) : TRUE]]
    ELSE IF prefix # "" THEN [kind |-> "UnknownNamespace", idx |-> NoneId]
    ELSE [kind |-> "Ok", idx |-> NoneId]

\* The namespace of a staged attribute, an unprefixed attribute taking the
\* default namespace as an element name does.
attr_ns_default_applies(c, namespaces, prefix) ==
    IF prefix = NS_XML_PREFIX THEN [kind |-> "Ok", idx |-> 0]
    ELSE get_ns_idx_by_prefix(c, namespaces, prefix)

\* The namespace of a staged attribute.
attr_ns(c, namespaces, prefix) ==
    IF prefix = NS_XML_PREFIX THEN [kind |-> "Ok", idx |-> 0]
    ELSE IF prefix = "" THEN [kind |-> "Ok", idx |-> NoneId]
    ELSE get_ns_idx_by_prefix(c, namespaces, prefix)

\* The check for duplicated attributes comparing namespace indexes, not URIs.
attr_exists_by_index(c, start_idx, ns_idx, local) ==
    \E j \in (start_idx + 1)..Len(c.attributes) :
        /\ c.attributes[j].namespace_idx = ns_idx
        /\ c.attributes[j].local_name = local

\* The check for duplicated attributes among those committed from start_idx.
attr_exists(c, start_idx, ns_idx, local) ==
    \E j \in (start_idx + 1)..Len(c.attributes) :
        as_expanded_name(c, c.attributes[j].namespace_idx, c.attributes[j].local_name)
          = as_expanded_name(c, ns_idx, local)

\* One turn of the for loop of resolve_attributes.
commit_attr(c, attr, ns, start_idx) ==
    IF ns.kind # "Ok" THEN Fail(c, ns.kind, << attr.prefix >>)
    ELSE IF attr_exists(c, start_idx, ns.idx, attr.local)
    THEN Fail(c, "DuplicatedAttribute", << attr.local >>)
    ELSE [c EXCEPT !.attributes =
             Append(c.attributes,
                    [namespace_idx |-> ns.idx, local_name |-> attr.local,
                     value |-> attr.value])]

RECURSIVE attrs_loop(_, _, _, _, _)
\* The for loop of resolve_attributes over the staged attributes.
attrs_loop(c, namespaces, staged, k, start_idx) ==
    IF k > Len(staged) \/ c.result # "Running" THEN c
    ELSE attrs_loop(commit_attr(c, staged[k],
                                attr_ns(c, namespaces, staged[k].prefix), start_idx),
                    namespaces, staged, k + 1, start_idx)

\* Ok((start_idx..ctx.doc.attributes.len()).into()), or the error
attr_range(c, start_idx) == [ctx |-> c, range |-> ShortRange(start_idx, Len(c.attributes))]

resolve_attributes(c, namespaces) ==
    IF c.current_attributes = << >>
    THEN [ctx |-> c, range |-> ShortRange(0, 0)]
    ELSE IF ge_u32_max(wide_add(attributes_len(c), Len(c.current_attributes)))
    THEN [ctx |-> Fail(c, "AttributesLimitReached", << >>), range |-> ShortRange(0, 0)]
    ELSE attr_range(attrs_loop([c EXCEPT !.current_attributes = << >>], namespaces,
                               c.current_attributes, 1, Len(c.attributes)),
                    Len(c.attributes))

----------------------------------------------------------------------------
(* process_element *)

gen_qname_string(prefix, local) ==
    IF prefix = "" THEN local ELSE prefix \o ":" \o local

Last(s) == s[Len(s)]

\* The comparison of the close tag by local name only.
close_tag_differs_local(prefix, local, parent_prefix, local_name) ==
    local # local_name

\* prefix != parent_prefix || local != tag_name.local_name
close_tag_differs(prefix, local, parent_prefix, local_name) ==
    prefix # parent_prefix \/ local # local_name

\* ElementEnd::Empty: the element is appended and awaits its next subtree.
end_empty(c, tag, attrs, namespaces) ==
    IF tag.kind # "Ok" THEN Fail(c, tag.kind, << c.tag_name.prefix >>)
    ELSE [append_node(c, ElementKind(tag.idx, c.tag_name.name, attrs, namespaces))
            EXCEPT !.awaiting_subtree = << Len(c.nodes) >>]

\* ElementEnd::Open adding the new parent to the awaiting list.
end_open_awaits(c, tag, attrs, namespaces) ==
    IF tag.kind # "Ok" THEN Fail(c, tag.kind, << c.tag_name.prefix >>)
    ELSE [append_node(c, ElementKind(tag.idx, c.tag_name.name, attrs, namespaces))
            EXCEPT !.parent_id = Len(c.nodes),
                   !.awaiting_subtree = << Len(c.nodes) >>,
                   !.parent_prefixes = Append(c.parent_prefixes, c.tag_name.prefix)]

\* ElementEnd::Open pushing no prefix for the new parent.
end_open_no_push(c, tag, attrs, namespaces) ==
    IF tag.kind # "Ok" THEN Fail(c, tag.kind, << c.tag_name.prefix >>)
    ELSE [append_node(c, ElementKind(tag.idx, c.tag_name.name, attrs, namespaces))
            EXCEPT !.parent_id = Len(c.nodes)]

\* ElementEnd::Open: the element is appended and becomes the parent.
end_open(c, tag, attrs, namespaces) ==
    IF tag.kind # "Ok" THEN Fail(c, tag.kind, << c.tag_name.prefix >>)
    ELSE [append_node(c, ElementKind(tag.idx, c.tag_name.name, attrs, namespaces))
            EXCEPT !.parent_id = Len(c.nodes),
                   !.parent_prefixes = Append(c.parent_prefixes, c.tag_name.prefix)]

\* ElementEnd::Close clearing the awaiting list instead of pushing the parent.
end_close_clears(c, prefix, local, parent_node, parent_prefix) ==
    IF /\ parent_node.kind = "Element"
       /\ close_tag_differs(prefix, local, parent_prefix, parent_node.local_name)
    THEN Fail(c, "UnexpectedCloseTag",
              << gen_qname_string(parent_prefix, parent_node.local_name),
                 gen_qname_string(prefix, local) >>)
    ELSE [c EXCEPT !.awaiting_subtree = << >>,
                   !.parent_id = parent_node.parent,
                   !.parent_prefixes = SubSeq(c.parent_prefixes, 1,
                                              Len(c.parent_prefixes) - 1)]

\* ElementEnd::Close(prefix, local)
end_close(c, prefix, local, parent_node, parent_prefix) ==
    IF /\ parent_node.kind = "Element"
       /\ close_tag_differs(prefix, local, parent_prefix, parent_node.local_name)
    THEN Fail(c, "UnexpectedCloseTag",
              << gen_qname_string(parent_prefix, parent_node.local_name),
                 gen_qname_string(prefix, local) >>)
    ELSE [c EXCEPT !.awaiting_subtree = Append(c.awaiting_subtree, c.parent_id),
                   !.parent_id = parent_node.parent,
                   !.parent_prefixes = SubSeq(c.parent_prefixes, 1,
                                              Len(c.parent_prefixes) - 1)]

\* The match on the end token, once namespaces and attributes are resolved.
end_match(c, attrs, namespaces, end_token) ==
    IF c.result # "Running" THEN c
    ELSE CASE end_token.kind = "Empty" ->
                end_empty(c, get_ns_idx_by_prefix(c, namespaces, c.tag_name.prefix),
                          attrs, namespaces)
           [] end_token.kind = "Close" ->
                end_close(c, end_token.prefix, end_token.local,
                          c.nodes[c.parent_id + 1], Last(c.parent_prefixes))
           [] end_token.kind = "Open" ->
                end_open(c, get_ns_idx_by_prefix(c, namespaces, c.tag_name.prefix),
                         attrs, namespaces)

\* let attributes = resolve_attributes(namespaces, ctx)?; match end_token ...
end_attributes(ra, namespaces, end_token) ==
    end_match(ra.ctx, ra.range, namespaces, end_token)

\* process_element without the move of namespace_start_idx to the end of
\* the log.
end_namespaces_same_start(rn, end_token) ==
    end_attributes(resolve_attributes(rn.ctx, rn.range), rn.range, end_token)

\* ctx.namespace_start_idx = ctx.doc.namespaces.tree_order.len(); ...
end_namespaces(rn, end_token) ==
    end_attributes(
        resolve_attributes([rn.ctx EXCEPT !.namespace_start_idx = Len(rn.ctx.tree_order)],
                           rn.range),
        rn.range, end_token)

\* process_element without the check of the empty staged tag name.
process_element_no_entity_check(c, end_token) ==
    end_namespaces(resolve_namespaces(c), end_token)

process_element(c, end_token) ==
    IF c.tag_name.name = ""
    THEN Fail(c, "UnexpectedEntityCloseTag", << >>)
    ELSE end_namespaces(resolve_namespaces(c), end_token)

----------------------------------------------------------------------------
(* process_text, append_text *)

\* append_text without the merge into the previous text node.
append_text_no_merge(c, text) == append_node(c, TextKind(text))

\* append_text joining a LF that ends the previous text node with a LF that
\* begins the new text.
append_text_join_line_end(c, text) ==
    IF c.after_text
    THEN IF Len(c.nodes) > 0 /\ Last(c.nodes).kind = "Text"
         THEN [c EXCEPT !.nodes[Len(c.nodes)].text =
                  IF /\ Last(c.nodes).text # << >> /\ text # << >>
                     /\ Last(Last(c.nodes).text) = LF /\ Head(text) = LF
                  THEN Last(c.nodes).text \o Tail(text)
                  ELSE Last(c.nodes).text \o text]
         ELSE c
    ELSE append_node(c, TextKind(text))

\* append_text putting the new text before the text of the previous node.
append_text_prepend(c, text) ==
    IF c.after_text
    THEN IF Len(c.nodes) > 0 /\ Last(c.nodes).kind = "Text"
         THEN [c EXCEPT !.nodes[Len(c.nodes)].text = text \o Last(c.nodes).text]
         ELSE c
    ELSE append_node(c, TextKind(text))

append_text(c, text) ==
    IF c.after_text
    THEN IF Len(c.nodes) > 0 /\ Last(c.nodes).kind = "Text"
         THEN [c EXCEPT !.nodes[Len(c.nodes)].text = Last(c.nodes).text \o text]
         ELSE c
    ELSE append_node(c, TextKind(text))

\* process_text dropping a chunk that fails to normalize instead of failing.
text_done_ignore(c, text, n) ==
    IF n.kind # "Ok" THEN c
    ELSE IF ~ HasAmpOrCR(text) \/ n.text # << >>
    THEN [append_text(c, n.text) EXCEPT !.after_text = TRUE]
    ELSE c

\* process_text once the chunk is normalized.
text_done(c, text, n) ==
    IF n.kind # "Ok" THEN Fail(c, n.kind, << >>)
    ELSE IF ~ HasAmpOrCR(text) \/ n.text # << >>
    THEN [append_text(c, n.text) EXCEPT !.after_text = TRUE]
    ELSE c

process_text(c, text) == text_done(c, text, normalize_text(text))

----------------------------------------------------------------------------
(* Context::token *)

\* The ElementEnd arm of token leaving after_text as it was.
element_done_keeps_flag(c) == c

\* process_element(end, range, self)?; self.after_text = false;
element_done(c) == IF c.result # "Running" THEN c ELSE [c EXCEPT !.after_text = FALSE]

\* token staging the tag name of an ElementStart before checking its prefix.
token_stage_first(c, tok) ==
    CASE tok.kind = "ElementStart" ->
            IF tok.prefix = XMLNS
            THEN Fail([c EXCEPT !.tag_name = [prefix |-> tok.prefix, name |-> tok.local],
                                !.after_text = FALSE],
                      "InvalidElementNamePrefix", << >>)
            ELSE [c EXCEPT !.tag_name = [prefix |-> tok.prefix, name |-> tok.local],
                           !.after_text = FALSE]
      [] tok.kind = "Attribute" ->
            process_attribute(c, tok.prefix, tok.local, tok.value)
      [] tok.kind \in {"Open", "Empty", "Close"} ->
            element_done(process_element(c, tok))
      [] tok.kind = "Text" ->
            process_text(c, tok.value)

token(c, tok) ==
    CASE tok.kind = "ElementStart" ->
            IF tok.prefix = XMLNS
            THEN Fail(c, "InvalidElementNamePrefix", << >>)
            ELSE [c EXCEPT !.tag_name = [prefix |-> tok.prefix, name |-> tok.local],
                           !.after_text = FALSE]
      [] tok.kind = "Attribute" ->
            process_attribute(c, tok.prefix, tok.local, tok.value)
      [] tok.kind \in {"Open", "Empty", "Close"} ->
            element_done(process_element(c, tok))
      [] tok.kind = "Text" ->
            process_text(c, tok.value)

----------------------------------------------------------------------------
(* Spec: Document::parse fed by the events of the tokenizer.               *)

\* The documents explored: deep ones, of up to MaxNodes nodes (the root
\* included) and MaxTexts Text events without attributes, and documents of
\* one element with up to MaxAttrEvents Attribute events.
MaxNodes == 5

MaxTexts == 1

MaxAttrEvents == 4

Profiles ==
    { [nodes |-> MaxNodes, attrs |-> 0, texts |-> MaxTexts],
      [nodes |-> 2, attrs |-> MaxAttrEvents, texts |-> 0] }

ElemPrefixes == { "", "n1", XMLNS }

ClosePrefixes == { "", "n1" }

Locals == { "a", "b" }

\* (prefix, local, raw value) of the Attribute events
AttrEvents ==
    ({ XMLNS } \X { "n1" } \X { << "u" >>, << "v" >>, NS_XML_URI, NS_XMLNS_URI })
    \cup ({ XMLNS } \X { "n2" } \X { << "u" >> })
    \cup ({ XMLNS } \X { NS_XML_PREFIX } \X { << "u" >>, NS_XML_URI })
    \cup ({ "" } \X { XMLNS } \X { << "u" >>, NS_XML_URI, NS_XMLNS_URI })
    \cup ({ "", "n1", "n2", NS_XML_PREFIX } \X { "a" } \X { << "1", TAB >> })

TreeTexts == { << "a" >>, << "a", CR >>, << LF >>, BareAmp }

\* Document::parse up to the call of the tokenizer: the root node, the xml
\* namespace and the Context.
Construct ==
    /\ IdleText
    /\ IdleAttr
    /\ IdleApp
    /\ nodes = << RootNode >>
    /\ attributes = << >>
    /\ ns_values = << [name |-> NS_XML_PREFIX, uri |-> NS_XML_URI] >>
    /\ tree_order = << 0 >>
    /\ namespace_start_idx = 1
    /\ current_attributes = << >>
    /\ awaiting_subtree = << >>
    /\ parent_prefixes = << "" >>
    /\ after_text = FALSE
    /\ parent_id = 0
    /\ tag_name = [prefix |-> "", name |-> ""]
    /\ in_tag = FALSE
    /\ last_token = NoToken
    /\ nattrs = 0
    /\ ntexts = 0
    /\ result = "Running"
    /\ err_info = << >>

Init ==
    /\ Construct
    /\ limits \in Profiles
    /\ nodes_limit = NoLimit
    /\ attributes_base = NoEarlier

\* The builder handles one token; in_tag follows the tokenizer's position.
Handle(tok, tag) ==
    /\ Install(token(Ctx, tok))
    /\ last_token' = tok
    /\ in_tag' = tag

ElementStart ==
    /\ result = "Running"
    /\ ~ in_tag
    /\ Len(nodes) < limits.nodes
    /\ \E prefix \in ElemPrefixes, local \in Locals :
          Handle(Token("ElementStart", prefix, local, << >>), TRUE)
    /\ UNCHANGED << limits, nodes_limit, attributes_base, nattrs, ntexts, textVars,
                    attrVars, appVars >>

Attribute ==
    /\ result = "Running"
    /\ in_tag
    /\ nattrs < limits.attrs
    /\ \E a \in AttrEvents :
          Handle(Token("Attribute", a[1], a[2], a[3]), TRUE)
    /\ nattrs' = nattrs + 1
    /\ UNCHANGED << limits, nodes_limit, attributes_base, ntexts, textVars, attrVars, appVars >>

ElementEndOpen ==
    /\ result = "Running"
    /\ in_tag
    /\ Handle(Token("Open", "", "", << >>), FALSE)
    /\ UNCHANGED << limits, nodes_limit, attributes_base, nattrs, ntexts, textVars,
                    attrVars, appVars >>

ElementEndEmpty ==
    /\ result = "Running"
    /\ in_tag
    /\ Handle(Token("Empty", "", "", << >>), FALSE)
    /\ UNCHANGED << limits, nodes_limit, attributes_base, nattrs, ntexts, textVars,
                    attrVars, appVars >>

\* A close tag: the tokenizer sends none at the top level once an element
\* was started (process_element holds that case unreachable).
ElementEndClose ==
    /\ result = "Running"
    /\ ~ in_tag
    /\ tag_name.name = "" \/ parent_id # 0
    /\ \E prefix \in ClosePrefixes, local \in Locals :
          Handle(Token("Close", prefix, local, << >>), FALSE)
    /\ UNCHANGED << limits, nodes_limit, attributes_base, nattrs, ntexts, textVars,
                    attrVars, appVars >>

Text ==
    /\ result = "Running"
    /\ ~ in_tag
    /\ ntexts < limits.texts
    /\ \E text \in TreeTexts :
          Handle(Token("Text", "", "", text), FALSE)
    /\ ntexts' = ntexts + 1
    /\ UNCHANGED << limits, nodes_limit, attributes_base, nattrs, textVars, attrVars, appVars >>

\* The final check accepting any child of the root.
RootHasChild ==
    \E i \in 1..Len(nodes) : nodes[i].parent = 0

\* doc.root().children().any(|n| n.is_element())
RootHasElementChild ==
    \E i \in 1..Len(nodes) : nodes[i].parent = 0 /\ nodes[i].kind = "Element"

\* The final checks without the one for an open element.
finish_result_no_unclosed ==
    IF ~ RootHasElementChild THEN "NoRootNode" ELSE "Ok"

\* The final checks without the one for a root element.
finish_result_no_root ==
    IF Len(parent_prefixes) > 1 THEN "UnclosedRootNode" ELSE "Ok"

\* Document::parse after the tokenizer returned Ok: the two final checks.
finish_result ==
    IF ~ RootHasElementChild THEN "NoRootNode"
    ELSE IF Len(parent_prefixes) > 1 THEN "UnclosedRootNode"
    ELSE "Ok"

\* The event stream ends.
Finish ==
    /\ result = "Running"
    /\ ~ in_tag
    /\ result' = finish_result
    /\ last_token' = Token("End", "", "", << >>)
    /\ UNCHANGED << nodes, attributes, ns_values, tree_order, namespace_start_idx,
                    current_attributes, awaiting_subtree, parent_prefixes,
                    after_text, parent_id, tag_name, in_tag, limits, nodes_limit,
                    attributes_base,
                    nattrs, ntexts, err_info, textVars, attrVars, appVars >>

Next ==
    \/ ElementStart
    \/ Attribute
    \/ ElementEndOpen
    \/ ElementEndEmpty
    \/ ElementEndClose
    \/ Text
    \/ Finish

Spec == Init /\ [][Next]_vars

----------------------------------------------------------------------------
(* SpecNs: nested elements that declare and use namespaces.                *)

MaxNsNodes == 4

MaxNsAttrEvents == 2

\* (prefix, local) of the element names
NsElems == { << "", "a" >>, << "n1", "a" >> }

\* (prefix, local, raw value) of the Attribute events
NsAttrEvents ==
    { << XMLNS, "n1", << "u" >> >>, << XMLNS, "n1", << "v" >> >>,
      << "", XMLNS, << "u" >> >>, << "", XMLNS, << "v" >> >>,
      << "n1", "a", << "1" >> >>, << "n2", "a", << "1" >> >> }

InitNs ==
    /\ Construct
    /\ limits = [nodes |-> MaxNsNodes, attrs |-> MaxNsAttrEvents, texts |-> 0]
    /\ nodes_limit = NoLimit
    /\ attributes_base = NoEarlier

NsElementStart ==
    /\ result = "Running"
    /\ ~ in_tag
    /\ Len(nodes) < limits.nodes
    /\ \E e \in NsElems : Handle(Token("ElementStart", e[1], e[2], << >>), TRUE)
    /\ UNCHANGED << limits, nodes_limit, attributes_base, nattrs, ntexts, textVars,
                    attrVars, appVars >>

NsAttribute ==
    /\ result = "Running"
    /\ in_tag
    /\ nattrs < limits.attrs
    /\ \E a \in NsAttrEvents : Handle(Token("Attribute", a[1], a[2], a[3]), TRUE)
    /\ nattrs' = nattrs + 1
    /\ UNCHANGED << limits, nodes_limit, attributes_base, ntexts, textVars, attrVars, appVars >>

NsElementEndClose ==
    /\ result = "Running"
    /\ ~ in_tag
    /\ parent_id # 0
    /\ \E e \in NsElems : Handle(Token("Close", e[1], e[2], << >>), FALSE)
    /\ UNCHANGED << limits, nodes_limit, attributes_base, nattrs, ntexts, textVars,
                    attrVars, appVars >>

NextNs ==
    \/ NsElementStart
    \/ NsAttribute
    \/ ElementEndOpen
    \/ ElementEndEmpty
    \/ NsElementEndClose
    \/ Finish

SpecNs == InitNs /\ [][NextNs]_vars

----------------------------------------------------------------------------
(* SpecRuns: runs of Text events between the tags of a small document.     *)

MaxRunNodes == 3

MaxRunTexts == 3

InitRuns ==
    /\ Construct
    /\ limits = [nodes |-> MaxRunNodes, attrs |-> 0, texts |-> MaxRunTexts]
    /\ nodes_limit = NoLimit
    /\ attributes_base = NoEarlier

NextRuns ==
    \/ ElementStart
    \/ ElementEndOpen
    \/ ElementEndEmpty
    \/ ElementEndClose
    \/ Text
    \/ Finish

SpecRuns == InitRuns /\ [][NextRuns]_vars

----------------------------------------------------------------------------
(* SpecLimit: a parse under ParsingOptions with a small nodes_limit.       *)

MaxLimitNodes == 4

MaxNodesLimit == 2

\* Document::parse_with_options(text, opt): the construction of
\* Document::parse; Context has no field that takes opt.nodes_limit.
InitLimit ==
    /\ Construct
    /\ limits = [nodes |-> MaxLimitNodes, attrs |-> 0, texts |-> 1]
    /\ nodes_limit \in 1..MaxNodesLimit
    /\ attributes_base = NoEarlier

SpecLimit == InitLimit /\ [][NextRuns]_vars

----------------------------------------------------------------------------
(* SpecDoc: small documents with texts, attributes and namespaces at once. *)

MaxDocNodes == 2

MaxDocAttrEvents == 2

MaxDocTexts == 2

InitDoc ==
    /\ Construct
    /\ limits = [nodes |-> MaxDocNodes, attrs |-> MaxDocAttrEvents, texts |-> MaxDocTexts]
    /\ nodes_limit = NoLimit
    /\ attributes_base = NoEarlier

NextDoc ==
    \/ NsElementStart
    \/ NsAttribute
    \/ ElementEndOpen
    \/ ElementEndEmpty
    \/ NsElementEndClose
    \/ Text
    \/ Finish

SpecDoc == InitDoc /\ [][NextDoc]_vars

----------------------------------------------------------------------------
(* SpecOpen: nested elements with prefixes, declarations and a text.       *)

MaxOpenNodes == 3

MaxOpenAttrEvents == 1

MaxOpenTexts == 1

InitOpen ==
    /\ Construct
    /\ limits = [nodes |-> MaxOpenNodes, attrs |-> MaxOpenAttrEvents,
                 texts |-> MaxOpenTexts]
    /\ nodes_limit = NoLimit
    /\ attributes_base = NoEarlier

SpecOpen == InitOpen /\ [][NextDoc]_vars

----------------------------------------------------------------------------
(* SpecCeil: the end of a parse whose attribute table is nearly full: the  *)
(* attributes of the elements before are counted, not held.                *)

MaxCeilNodes == 3

MaxCeilAttrEvents == 3

\* How far below the largest accepted length the table starts.
MaxBelow == 3

\* (prefix, local, raw value) of the Attribute events
CeilAttrEvents ==
    { << "", "a", << "1" >> >>, << "", "b", << "1" >> >>, << "n1", "a", << "1" >> >> }

\* The table holds 2^32 - 2 - k attributes, all accepted before.
InitCeil ==
    /\ Construct
    /\ limits = [nodes |-> MaxCeilNodes, attrs |-> MaxCeilAttrEvents, texts |-> 0]
    /\ nodes_limit = NoLimit
    /\ attributes_base \in { Wide(65535, 65534 - k) : k \in 0..MaxBelow }

CeilAttribute ==
    /\ result = "Running"
    /\ in_tag
    /\ nattrs < limits.attrs
    /\ \E a \in CeilAttrEvents : Handle(Token("Attribute", a[1], a[2], a[3]), TRUE)
    /\ nattrs' = nattrs + 1
    /\ UNCHANGED << limits, nodes_limit, attributes_base, ntexts, textVars, attrVars, appVars >>

NextCeil ==
    \/ ElementStart
    \/ CeilAttribute
    \/ ElementEndOpen
    \/ ElementEndEmpty
    \/ ElementEndClose
    \/ Finish

SpecCeil == InitCeil /\ [][NextCeil]_vars

----------------------------------------------------------------------------
(* SpecReader: the key loop of read_ebook over a book whose chapters are   *)
(* texts of a few lines, in a terminal that is resized between keys.       *)

MaxChapters == 9

MaxLines == 4

MaxHeight == 5

MaxWidth == 2

\* A text of n lines, as .lines().collect() gives it.
Lines(n) == [j \in 1..n |-> "l"]

\* The books explored: n chapters, chapter k of (k * m) % (MaxLines + 1)
\* lines; the first chapter of the longer books cannot be read.
Books ==
    { [k \in 1..n |->
         [ok |-> ~ (k = 1 /\ n = MaxChapters), text |-> Lines((k * m) % (MaxLines + 1))]]
      : n \in { 8, MaxChapters }, m \in 1..2 }

\* (width, height) as termion::terminal_size() returns it
Sizes == (1..MaxWidth) \X (2..MaxHeight)

\* ebook.read_chapter(index): self.chapters[index] panics past the end, a
\* chapter that cannot be read is an Err, else the text of the chapter.
read_chapter(index) ==
    IF index + 1 > Len(book) THEN [kind |-> "Panic", text |-> << >>]
    ELSE IF ~ book[index + 1].ok THEN [kind |-> "Err", text |-> << >>]
    ELSE [kind |-> "Ok", text |-> book[index + 1].text]

saturating_sub(a, b) == IF a > b THEN a - b ELSE 0

\* read_ebook up to the loop: chapter 7, scroll 0, the size of the terminal.
InitReader ==
    /\ IdleTree
    /\ IdleText
    /\ IdleAttr
    /\ IdleEpub
    /\ book \in Books
    /\ chp_num = 7
    /\ read_chapter(7).kind = "Ok"
    /\ lines = read_chapter(7).text
    /\ scroll = 0
    /\ terminal_size \in Sizes
    /\ last_size = terminal_size
    /\ reading = "Running"

\* The user resizes the terminal between two keys.
Resize ==
    /\ reading = "Running"
    /\ terminal_size' \in Sizes \ { terminal_size }
    /\ UNCHANGED << book, chp_num, lines, scroll, last_size, reading >>
    /\ UNCHANGED << treeVars, textVars, attrVars, epubVars >>

\* lines = ebook.read_chapter(chp_num)?.lines().collect(); scroll = 0;
open_chapter(num) ==
    /\ chp_num' = num
    /\ IF read_chapter(num).kind = "Ok"
       THEN lines' = read_chapter(num).text /\ scroll' = 0 /\ reading' = "Running"
       ELSE reading' = read_chapter(num).kind /\ UNCHANGED << lines, scroll >>

\* the arm `_ => continue`
other_key == UNCHANGED << chp_num, lines, scroll, reading >>

\* Key::Down if scroll < lines.len().saturating_sub(current_size.1 as usize - 3):
\* under a height below 3 the subtraction overflows, which panics in a
\* build with overflow checks and wraps to a huge number in one without.
key_down(current_size) ==
    IF current_size[2] >= 3
    THEN IF scroll < saturating_sub(Len(lines), current_size[2] - 3)
         THEN scroll' = scroll + 1 /\ UNCHANGED << chp_num, lines, reading >>
         ELSE other_key
    ELSE \/ reading' = "Panic" /\ UNCHANGED << chp_num, lines, scroll >>
         \/ other_key

\* The match on the key.
match_key(key, current_size) ==
    CASE key = "q" -> reading' = "Quit" /\ UNCHANGED << chp_num, lines, scroll >>
      [] key = "n" -> open_chapter(chp_num + 1)
      [] key = "p" -> IF chp_num > 0 THEN open_chapter(chp_num - 1) ELSE other_key
      [] key = "Up" -> IF scroll > 0
                       THEN scroll' = scroll - 1 /\ UNCHANGED << chp_num, lines, reading >>
                       ELSE other_key
      [] key = "Down" -> key_down(current_size)
      [] OTHER -> other_key

\* One turn of `for key in keys`: a changed size is taken, the screen is
\* redrawn and the key is dropped; else the key is matched.
key_turn(key) ==
    /\ IF terminal_size # last_size
       THEN last_size' = terminal_size /\ other_key
       ELSE match_key(key, terminal_size) /\ UNCHANGED last_size
    /\ UNCHANGED << book, terminal_size >>
    /\ UNCHANGED << treeVars, textVars, attrVars, epubVars >>

KeyQuit ==
    /\ reading = "Running"
    /\ key_turn("q")

KeyNext ==
    /\ reading = "Running"
    /\ key_turn("n")

KeyPrev ==
    /\ reading = "Running"
    /\ key_turn("p")

KeyUp ==
    /\ reading = "Running"
    /\ key_turn("Up")

KeyDown ==
    /\ reading = "Running"
    /\ key_turn("Down")

\* any other key
KeyOther ==
    /\ reading = "Running"
    /\ key_turn("x")

NextReader ==
    \/ Resize
    \/ KeyQuit
    \/ KeyNext
    \/ KeyPrev
    \/ KeyUp
    \/ KeyDown
    \/ KeyOther

SpecReader == InitReader /\ [][NextReader]_vars

----------------------------------------------------------------------------
(* SpecEpub: Epub::parse_content_opf once the package document is parsed:  *)
(* the manifest map, the navigation map, then the loop over the spine.     *)

MaxItems == 2

MaxNavPoints == 2

MaxSpine == 3

\* attribute(..) giving None
NoAttr == "None"

\* The <item> elements explored: two ids, two of them sharing an href, one
\* id listed with two hrefs, one item without id.
Items ==
    { [id |-> "c1", href |-> "h1"], [id |-> "c2", href |-> "h1"],
      [id |-> "c2", href |-> "h2"], [id |-> NoAttr, href |-> "h2"] }

\* The navigation points explored: (path, fragment) and the title.
NavPoints ==
    { [path |-> << "h1", "s" >>, text |-> "T1"], [path |-> << "h2", "" >>, text |-> "T2"] }

\* The idref attributes of the spine children explored.
IdRefs == { "c1", "c2", NoAttr }

\* HashMap::insert
map_insert(m, k, v) == [x \in (DOMAIN m) \cup { k } |-> IF x = k THEN v ELSE m[x]]

\* HashMap::remove
map_remove(m, k) == [x \in (DOMAIN m) \ { k } |-> m[x]]

RECURSIVE collect_manifest(_, _)
\* manifest.insert(n.attribute("id").unwrap(), n.attribute("href").unwrap())
\* for each item in document order
collect_manifest(m, items) ==
    IF items = << >> THEN m
    ELSE collect_manifest(map_insert(m, Head(items).id, Head(items).href), Tail(items))

RECURSIVE collect_nav(_, _)
\* let np = path.split("#").next().unwrap();
\* nav.insert(np.to_string(), (path.to_string(), text.to_string()))
collect_nav(m, points) ==
    IF points = << >> THEN m
    ELSE collect_nav(map_insert(m, Head(points).path[1],
                                << Head(points).path, Head(points).text >>),
                     Tail(points))

\* Chapter::new(id, path)
Chapter(id, path) == [title |-> id, id |-> id, relative_path |-> path]

\* Epub::new up to the loops of parse_content_opf; the package document
\* gives the items, the navigation points and the spine children.
InitEpub ==
    /\ IdleTree
    /\ IdleText
    /\ IdleAttr
    /\ IdleReader
    /\ package \in [manifest : { << >> } \cup SeqsUpTo(Items, MaxItems),
                    toc : { << >> } \cup SeqsUpTo(NavPoints, MaxNavPoints),
                    spine : { << >> } \cup SeqsUpTo(IdRefs, MaxSpine)]
    /\ manifest = << >>
    /\ nav = << >>
    /\ chapters = << >>
    /\ toc = << >>
    /\ spine_idx = 0
    /\ loaded = "opened"

\* The closure over the manifest children: an item without id panics on
\* the unwrap.
ReadManifest ==
    /\ loaded = "opened"
    /\ IF \E k \in 1..Len(package.manifest) : package.manifest[k].id = NoAttr
       THEN loaded' = "Panic" /\ UNCHANGED manifest
       ELSE manifest' = collect_manifest(<< >>, package.manifest) /\ loaded' = "manifest"
    /\ UNCHANGED << package, nav, chapters, toc, spine_idx >>
    /\ UNCHANGED << treeVars, textVars, attrVars, readerVars >>

\* parse_toc fills the navigation map.
ReadToc ==
    /\ loaded = "manifest"
    /\ nav' = collect_nav(<< >>, package.toc)
    /\ loaded' = "spine"
    /\ UNCHANGED << package, manifest, chapters, toc, spine_idx >>
    /\ UNCHANGED << treeVars, textVars, attrVars, readerVars >>

\* The manifest looked up without consuming the entry.
manifest_get(m, id) == m

\* manifest.remove(id): what is left of the map
manifest_remove(m, id) == map_remove(m, id)

\* if let Some((exact_path, title)) = nav.remove(path)
\*     { self.toc.push((i, title, exact_path)); }
take_nav(path) ==
    IF path \in DOMAIN nav
    THEN /\ toc' = Append(toc, << spine_idx, nav[path][2], nav[path][1] >>)
         /\ nav' = map_remove(nav, path)
    ELSE UNCHANGED << toc, nav >>

\* One turn of the loop over the spine children.
SpineItem ==
    /\ loaded = "spine"
    /\ spine_idx < Len(package.spine)
    /\ LET id == package.spine[spine_idx + 1]
       IN  IF id # NoAttr /\ id \in DOMAIN manifest
           THEN /\ manifest' = manifest_remove(manifest, id)
                /\ take_nav(manifest[id])
                /\ chapters' = Append(chapters, Chapter(id, manifest[id]))
                /\ spine_idx' = spine_idx + 1
                /\ UNCHANGED loaded
           ELSE /\ loaded' = "ParseError"
                /\ UNCHANGED << manifest, nav, chapters, toc, spine_idx >>
    /\ UNCHANGED package
    /\ UNCHANGED << treeVars, textVars, attrVars, readerVars >>

\* return Ok(()) after the last spine child
SpineDone ==
    /\ loaded = "spine"
    /\ spine_idx = Len(package.spine)
    /\ loaded' = "Ok"
    /\ UNCHANGED << package, manifest, nav, chapters, toc, spine_idx >>
    /\ UNCHANGED << treeVars, textVars, attrVars, readerVars >>

NextEpub ==
    \/ ReadManifest
    \/ ReadToc
    \/ SpineItem
    \/ SpineDone

SpecEpub == InitEpub /\ [][NextEpub]_vars

----------------------------------------------------------------------------
(* Line ends in text (C8) *)

RECURSIVE LineEndsExpected(_)
\* What the line-end rule prescribes for a chunk, item by item: a literal
\* CR LF pair and a lone literal CR give one LF, a reference gives the bytes
\* of its char, every other literal byte is kept.
LineEndsExpected(items) ==
    IF items = << >> THEN << >>
    ELSE IF Head(items) = << CR >>
    THEN IF Len(items) > 1 /\ items[2] = << LF >>
         THEN << LF >> \o LineEndsExpected(Tail(Tail(items)))
         ELSE << LF >> \o LineEndsExpected(Tail(items))
    ELSE IF IsRef(Head(items))
    THEN CharToBytes(Decoded(Head(items))) \o LineEndsExpected(Tail(items))
    ELSE Head(items) \o LineEndsExpected(Tail(items))

\* C8: text normalization maps every literal carriage return of a chunk to a
\* line feed (a CR LF pair and a lone CR each give exactly one LF) and keeps
\* every other literal byte in order, wherever the CR stands: before or
\* after a reference, or as the last byte.
C8_LiteralCRBecomesLF ==
    /\ normalize_text(<< "l", "1", CR, LF, "l", "2", CR, "l", "3" >>)
         = [kind |-> "Ok", text |-> << "l", "1", LF, "l", "2", LF, "l", "3" >>]
    /\ (step \in {"normalized", "renormalized"} /\ norm.kind = "Ok")
         => norm.text = LineEndsExpected(raw)

----------------------------------------------------------------------------
(* Attribute values (C9) *)

RECURSIVE AttrExpected(_)
AttrExpected(items) ==
    IF items = << >> THEN << >>
    ELSE IF Head(items) = << CR >> /\ Len(items) > 1 /\ items[2] = << LF >>
    THEN AttrExpected(Tail(items))
    ELSE IF Head(items) \in { << TAB >>, << LF >>, << CR >> }
    THEN << SP >> \o AttrExpected(Tail(items))
    ELSE IF IsRef(Head(items))
    THEN CharToBytes(Decoded(Head(items))) \o AttrExpected(Tail(items))
    ELSE Head(items) \o AttrExpected(Tail(items))

CRLFPairs(items) ==
    Cardinality({ i \in 1..(Len(items) - 1) :
                    items[i] = << CR >> /\ items[i + 1] = << LF >> })

NoRefs(items) == \A i \in 1..Len(items) : IsLiteral(items[i])

\* C9: attribute-value normalization turns each literal tab, line feed and
\* carriage return not followed by a line feed into one space and a literal
\* CR LF pair into one space; other literal bytes are unchanged; without
\* references the output length is the input length minus the CR LF pairs.
C9_AttrWhitespace ==
    /\ normalize_attribute(<< "x", TAB, "y", LF, "z" >>)
         = [kind |-> "Ok", text |-> << "x", SP, "y", SP, "z" >>]
    /\ (astep = "normalized" /\ anorm.kind = "Ok")
         => /\ anorm.text = AttrExpected(araw)
            /\ NoRefs(araw) =>
                 /\ Len(anorm.text) = Len(araw) - CRLFPairs(araw)
                 /\ \A i \in 1..Len(anorm.text) : anorm.text[i] \notin {TAB, LF, CR}

\* A value with a CR LF pair and a tab was normalized.
C9_Witness ==
    /\ astep = "normalized"
    /\ anorm.kind = "Ok"
    /\ CRLFPairs(araw) = 1
    /\ \E i \in 1..Len(araw) : araw[i] = << TAB >>
    /\ Len(anorm.text) = Len(araw) - 1

----------------------------------------------------------------------------
(* Idempotence of text normalization (C10) *)

\* C10 as stated: normalizing the stored text of a chunk again succeeds and
\* yields the same text.
C10_Idempotent ==
    step = "renormalized" => (renorm.kind = "Ok" /\ renorm.text = norm.text)

\* C10 amended: normalizing the stored text s again succeeds and yields s
\* exactly when s holds no ampersand and no carriage return, which is the
\* case for every chunk without references.
C10_IdempotentWithoutAmpCR ==
    step = "renormalized" =>
        /\ (renorm.kind = "Ok" /\ renorm.text = norm.text) <=> ~ HasAmpOrCR(norm.text)
        /\ NoRefs(raw) => (renorm.kind = "Ok" /\ renorm.text = norm.text)

\* A chunk with a literal CR and no reference was normalized twice.
C10_Witness ==
    /\ step = "renormalized"
    /\ NoRefs(raw)
    /\ \E i \in 1..Len(raw) : raw[i] = << CR >>
    /\ norm.text # Flatten(raw)
    /\ renorm.text = norm.text

----------------------------------------------------------------------------
(* The document read back through its links.                               *)

Node(id) == nodes[id + 1]

Ids == 0..(Len(nodes) - 1)

Max(S) == CHOOSE x \in S : \A y \in S : x >= y

RECURSIVE SiblingsUpTo(_, _)
\* The siblings up to id in document order, following prev_sibling.
SiblingsUpTo(id, fuel) ==
    IF id \notin Ids \/ fuel = 0 THEN << >>
    ELSE Append(SiblingsUpTo(Node(id).prev_sibling, fuel - 1), id)

ChildrenOf(p) == SiblingsUpTo(Node(p).last_child, Len(nodes))

RECURSIVE PreOrder(_, _)
RECURSIVE PreOrderAll(_, _)
\* The full recursive traversal from n.
PreOrder(n, fuel) ==
    IF fuel = 0 THEN << >> ELSE << n >> \o PreOrderAll(ChildrenOf(n), fuel - 1)

PreOrderAll(ns, fuel) ==
    IF ns = << >> THEN << >>
    ELSE PreOrder(Head(ns), fuel) \o PreOrderAll(Tail(ns), fuel)

RECURSIVE AncestorOrSelf(_, _, _)
AncestorOrSelf(a, m, fuel) ==
    \/ m = a
    \/ /\ fuel > 0
       /\ m \in Ids
       /\ Node(m).parent \in Ids
       /\ AncestorOrSelf(a, Node(m).parent, fuel - 1)

Subtree(n) == { m \in Ids : AncestorOrSelf(n, m, Len(nodes)) }

RootElements ==
    { ChildrenOf(0)[k] : k \in { j \in 1..Len(ChildrenOf(0)) :
                                   Node(ChildrenOf(0)[j]).kind = "Element" } }

\* The prefix an element was written with, read back from its namespace.
SourcePrefix(node) ==
    IF node.tag_ns = NoneId \/ ns_values[node.tag_ns + 1].name = NoName
    THEN "" ELSE ns_values[node.tag_ns + 1].name

----------------------------------------------------------------------------
(* Node ids (C1) *)

\* C1: in a successfully parsed document a node's id is its position in the
\* arena, every non-root node has an id greater than its parent's and than
\* its previous sibling's, and the pre-order walk visits 0, 1, 2, ... with
\* no id skipped or reused.
C1_IdsIncreaseInPreOrder ==
    result = "Ok" =>
        /\ Node(0).parent = NoneId
        /\ \A n \in Ids \ {0} :
              /\ Node(n).parent \in 0..(n - 1)
              /\ Node(n).prev_sibling \in {NoneId} \cup 0..(n - 1)
        /\ PreOrder(0, Len(nodes)) = [i \in 1..Len(nodes) |-> i - 1]

\* A parsed document of five nodes in which a node's parent is not the node
\* before it.
C1_Witness ==
    /\ result = "Ok"
    /\ Len(nodes) >= 5
    /\ \E n \in Ids \ {0} : Node(n).parent # n - 1 /\ Node(n).prev_sibling # NoneId

----------------------------------------------------------------------------
(* next_subtree (C2) *)

\* C2: after a successful parse, for every node n with children,
\* next_subtree(n) is absent exactly when no node follows n's subtree and
\* otherwise is the smallest id greater than every id of the subtree, so
\* that jumping from n to next_subtree(n) skips the subtree of n and no
\* other node.
C2_NextSubtreeSkipsSubtree ==
    result = "Ok" =>
        \A n \in Ids :
            Node(n).last_child # NoneId =>
                LET following == { m \in Ids : m > Max(Subtree(n)) }
                    after == IF Node(n).next_subtree = NoneId THEN {}
                             ELSE { m \in Ids : m >= Node(n).next_subtree }
                IN  /\ (Node(n).next_subtree = NoneId) <=> (following = {})
                    /\ following # {} => Node(n).next_subtree = Min(following)
                    /\ { m \in Ids : m <= n } \cup after = Ids \ (Subtree(n) \ {n})

\* A parsed document with an element that has children and is followed by a
\* node, and an element that has children and is followed by none.
C2_Witness ==
    /\ result = "Ok"
    /\ \E n \in Ids \ {0} : Node(n).last_child # NoneId /\ Node(n).next_subtree # NoneId
    /\ \E n \in Ids \ {0} : Node(n).last_child # NoneId /\ Node(n).next_subtree = NoneId

----------------------------------------------------------------------------
(* Duplicated attributes (C3) *)

\* The URI a prefix of a staged attribute stands for on the element being
\* ended: "xml" is fixed, the element's own declarations come first, then
\* the bindings of its parent.
OwnDecls(prefix) ==
    { k \in (namespace_start_idx + 1)..Len(tree_order) :
        ns_values[tree_order[k] + 1].name = prefix }

ParentDecls(prefix) ==
    IF Node(parent_id).kind # "Element" THEN {}
    ELSE { k \in (Node(parent_id).namespaces.start + 1)..Node(parent_id).namespaces.end :
             ns_values[tree_order[k] + 1].name = prefix }

StagedUri(prefix) ==
    IF prefix = NS_XML_PREFIX THEN NS_XML_URI
    ELSE IF prefix = "" THEN << NoName >>
    ELSE IF OwnDecls(prefix) # {} THEN ns_values[tree_order[Min(OwnDecls(prefix))] + 1].uri
    ELSE IF ParentDecls(prefix) # {}
    THEN ns_values[tree_order[Min(ParentDecls(prefix))] + 1].uri
    ELSE << "unbound" >>

Unbound(k) == StagedUri(current_attributes[k].prefix) = << "unbound" >>

\* The staged attributes j that resolve to the pair of an earlier one.
Collisions ==
    { j \in 1..Len(current_attributes) :
        /\ ~ Unbound(j)
        /\ \E i \in 1..(j - 1) :
              /\ current_attributes[i].local = current_attributes[j].local
              /\ StagedUri(current_attributes[i].prefix)
                   = StagedUri(current_attributes[j].prefix) }

ElementEnds == ElementEndOpen \/ ElementEndEmpty

\* Within the attribute range of every element of the document, the
\* resolved (namespace URI, local name) pairs are pairwise distinct.
AttributesDistinct ==
    \A n \in Ids :
        \A i, j \in (Node(n).attributes.start + 1)..Node(n).attributes.end :
            i # j =>
                \/ attributes[i].local_name # attributes[j].local_name
                \/ as_expanded_name(Ctx, attributes[i].namespace_idx, "")
                     # as_expanded_name(Ctx, attributes[j].namespace_idx, "")

----------------------------------------------------------------------------
(* Close tags (C4) *)

QName(prefix, local) == IF prefix = "" THEN local ELSE prefix \o ":" \o local

\* C4: a Close(prefix, local) event met while an element is open is accepted
\* only if prefix and local are the source prefix and the local name of the
\* innermost open element; otherwise the parse fails with UnexpectedCloseTag
\* carrying the open element's qualified name and the close tag's, and the
\* parent pointer, the open-element stack and the awaiting-subtree list are
\* as before the event.
C4_CloseTagMustMatch ==
    [][(ElementEndClose /\ parent_id # 0) =>
          IF /\ last_token'.prefix = SourcePrefix(Node(parent_id))
             /\ last_token'.local = Node(parent_id).local_name
          THEN /\ result' = "Running"
               /\ parent_id' = Node(parent_id).parent
          ELSE /\ result' = "UnexpectedCloseTag"
               /\ err_info' = << QName(SourcePrefix(Node(parent_id)),
                                       Node(parent_id).local_name),
                                 QName(last_token'.prefix, last_token'.local) >>
               /\ parent_id' = parent_id
               /\ parent_prefixes' = parent_prefixes
               /\ awaiting_subtree' = awaiting_subtree]_vars

\* The events of <a><b></a>: expected 'b', actual 'a'.
C4_Witness ==
    /\ result = "UnexpectedCloseTag"
    /\ err_info = << "b", "a" >>
    /\ Len(nodes) = 3
    /\ Node(1).local_name = "a"
    /\ parent_id = 2
    /\ parent_prefixes = << "", "", "" >>

----------------------------------------------------------------------------
(* End of the event stream (C5, C6, C7) *)

AtEnd == last_token.kind = "End"

\* C5: when the event stream ends and no Element node is a child of the
\* root, Document::parse fails with NoRootNode.
C5_NoElementIsNoRootNode ==
    AtEnd => (RootElements = {} <=> result = "NoRootNode")

\* The stream of a lone text ended.
C5_Witness ==
    /\ AtEnd
    /\ result = "NoRootNode"
    /\ Len(nodes) = 2
    /\ Node(1).kind = "Text"

\* C6: when the event stream ends while an opened element has not received
\* its Close, Document::parse fails with UnclosedRootNode: it neither
\* succeeds nor reports NoRootNode.
C6_OpenElementIsUnclosedRootNode ==
    AtEnd => (parent_id # 0 <=> result = "UnclosedRootNode")

\* The stream ended inside an element nested in another.
C6_Witness ==
    /\ AtEnd
    /\ result = "UnclosedRootNode"
    /\ parent_id # 0
    /\ Node(parent_id).parent # 0

----------------------------------------------------------------------------
(* Text runs (C11) *)

\* The last child of the current parent is a Text node.
LastSiblingIsText ==
    /\ Node(parent_id).last_child # NoneId
    /\ Node(Node(parent_id).last_child).kind = "Text"

\* C11: no two Text nodes are adjacent siblings: a Text event that arrives
\* when the last sibling under the current parent is a Text node adds its
\* content to that node and appends no node.
C11_TextRunsMerge ==
    /\ [](\A n \in Ids :
            (Node(n).kind = "Text" /\ Node(n).prev_sibling # NoneId)
                => Node(Node(n).prev_sibling).kind # "Text")
    /\ [][(Text /\ LastSiblingIsText /\ result' = "Running") =>
            /\ Len(nodes') = Len(nodes)
            /\ \A i \in 1..Len(nodes) :
                  IF i = Node(parent_id).last_child + 1
                  THEN nodes'[i] = [nodes[i] EXCEPT !.text =
                           nodes[i].text \o normalize_text(last_token'.value).text]
                  ELSE nodes'[i] = nodes[i]]_vars

\* The events of <a>, "a", LF, </a>: one Text node holds both chunks.
C11_Witness ==
    /\ result = "Ok"
    /\ ntexts = 2
    /\ Len(nodes) = 3
    /\ Node(2).kind = "Text"
    /\ Node(2).parent = 1
    /\ Node(2).text = << "a", LF >>

----------------------------------------------------------------------------
(* Fail-fast (C12) *)

\* The document and the tables as the event found them.
DocumentUntouched ==
    /\ nodes' = nodes
    /\ attributes' = attributes
    /\ ns_values' = ns_values
    /\ tree_order' = tree_order

\* C12: as soon as the handling of one event returns an error no later
\* event is processed and that error is the result of the parse; a
\* document is returned only when every event was accepted and both checks
\* at the end of the stream passed.
C12_FailFast ==
    /\ [][result = "Running"]_vars
    /\ [](result = "Ok" =>
            /\ AtEnd
            /\ RootElements # {}
            /\ Len(parent_prefixes) = 1)
    /\ [][/\ (last_token'.kind = "ElementStart" /\ last_token'.prefix = XMLNS)
              => (result' = "InvalidElementNamePrefix" /\ DocumentUntouched)
          /\ (last_token'.kind = "Text" /\ last_token'.value = BareAmp)
              => (result' = "MalformedEntityReference" /\ DocumentUntouched)
          /\ (result' # "Running" /\ last_token'.kind # "End")
              => result' \notin {"Ok", "NoRootNode", "UnclosedRootNode"}]_vars

\* A Text event failed inside an open element: the parse ended there with
\* the error, whatever was built so far.
C12_Witness ==
    /\ result = "MalformedEntityReference"
    /\ last_token.kind = "Text"
    /\ Len(nodes) >= 3
    /\ parent_id # 0
    /\ ~ ENABLED Next

----------------------------------------------------------------------------
(* Reserved namespaces (C13) *)

\* The token is an Attribute that declares a namespace.
IsDeclaration(tok) ==
    /\ tok.kind = "Attribute"
    /\ tok.prefix = XMLNS \/ tok.local = XMLNS

\* The prefix a declaration binds; NoName for the default namespace.
DeclaredName(tok) == IF tok.prefix = XMLNS THEN tok.local ELSE NoName

NothingPushed ==
    /\ ns_values' = ns_values
    /\ tree_order' = tree_order

\* C13: the namespace table never holds the xmlns URI, binds the prefix xml
\* to the XML namespace URI only and the XML namespace URI to the prefix
\* xml only, in the one entry registered at index 0; a declaration against
\* one of these rules fails with UnexpectedXmlnsUri, InvalidXmlPrefixUri or
\* UnexpectedXmlUri and pushes nothing.
C13_ReservedNamespaces ==
    /\ [](/\ \A i \in 1..Len(ns_values) :
                /\ ns_values[i].uri # NS_XMLNS_URI
                /\ ns_values[i].name = NS_XML_PREFIX => ns_values[i].uri = NS_XML_URI
                /\ ns_values[i].uri = NS_XML_URI
                     => (ns_values[i].name = NS_XML_PREFIX /\ i = 1)
          /\ \A k \in 2..Len(tree_order) : tree_order[k] # 0)
    /\ [][IsDeclaration(last_token') =>
            IF last_token'.value = NS_XMLNS_URI
            THEN result' = "UnexpectedXmlnsUri" /\ NothingPushed
            ELSE IF /\ DeclaredName(last_token') = NS_XML_PREFIX
                    /\ last_token'.value # NS_XML_URI
            THEN result' = "InvalidXmlPrefixUri" /\ NothingPushed
            ELSE IF /\ DeclaredName(last_token') # NS_XML_PREFIX
                    /\ last_token'.value = NS_XML_URI
            THEN result' = "UnexpectedXmlUri" /\ NothingPushed
            ELSE result' \in {"Running", "DuplicatedNamespace"}]_vars

\* After an accepted declaration, xmlns:n1 met the XML namespace URI.
C13_Witness ==
    /\ result = "UnexpectedXmlUri"
    /\ last_token.prefix = XMLNS
    /\ last_token.local = "n1"
    /\ Len(tree_order) = 2
    /\ Len(ns_values) = 2

----------------------------------------------------------------------------
(* Duplicated namespaces (C14) *)

\* The declaration names a namespace already declared on the element being
\* opened, and its value is not one of the reserved URIs.
Redeclaration(tok) ==
    /\ IsDeclaration(tok)
    /\ tok.value \notin { NS_XML_URI, NS_XMLNS_URI }
    /\ OwnDecls(DeclaredName(tok)) # {}

\* C14: declaring on one element a namespace already declared on that
\* element fails with DuplicatedNamespace, for xmlns:p given twice and for
\* xmlns given twice.
C14_RedeclarationIsDuplicatedNamespace ==
    [][Redeclaration(last_token') => result' = "DuplicatedNamespace"]_vars

----------------------------------------------------------------------------
(* Unknown namespaces (C15) *)

\* On the element being ended a namespace of that name is visible: declared
\* on the element itself, or visible on its parent.
Bound(name) == OwnDecls(name) # {} \/ ParentDecls(name) # {}

\* The staged attributes with a prefix, other than xml, that nothing binds.
UnboundAttrs ==
    { k \in 1..Len(current_attributes) :
        /\ current_attributes[k].prefix \notin { "", NS_XML_PREFIX }
        /\ ~ Bound(current_attributes[k].prefix) }

\* C15: an element end whose attribute or element name has a prefix that no
\* namespace visible on the element binds fails with UnknownNamespace
\* carrying that prefix (the first such name in the order attributes, then
\* element); an element name without prefix, when no default namespace is
\* visible, is accepted with no namespace.
C15_UnknownNamespace ==
    [][ElementEnds =>
          /\ (UnboundAttrs # {} /\ \A j \in Collisions : Min(UnboundAttrs) < j)
                => /\ result' = "UnknownNamespace"
                   /\ err_info' = << current_attributes[Min(UnboundAttrs)].prefix >>
          /\ (UnboundAttrs = {} /\ Collisions = {})
                => IF tag_name.prefix # ""
                   THEN IF Bound(tag_name.prefix)
                        THEN result' = "Running"
                        ELSE /\ result' = "UnknownNamespace"
                             /\ err_info' = << tag_name.prefix >>
                             /\ nodes' = nodes
                   ELSE /\ result' = "Running"
                        /\ Len(nodes') = Len(nodes) + 1
                        /\ ~ Bound(NoName) => Last(nodes').tag_ns = NoneId]_vars

\* The prefix n1 is declared in the document, but not where the element
\* that uses it stands.
C15_Witness ==
    /\ result = "UnknownNamespace"
    /\ err_info = << "n1" >>
    /\ last_token.kind \in {"Open", "Empty"}
    /\ tag_name.prefix = "n1"
    /\ parent_id # 0
    /\ \E i \in 1..Len(ns_values) : ns_values[i].name = "n1"

----------------------------------------------------------------------------
(* Node ceiling (C16) *)

\* The nodes appended by the events; the root node is not counted.
NodesProduced == Len(nodes) - 1

----------------------------------------------------------------------------
(* Namespace ranges of parent and child (C17) *)

\* The positions of a range in the log of namespaces.
RangeOf(range) == (range.start + 1)..range.end

\* The bindings (prefix, URI) in a range of the log order over the values vals.
RangeBindings(vals, order, range) ==
    { << vals[order[k] + 1].name, vals[order[k] + 1].uri >> : k \in RangeOf(range) }

RangeNames(vals, order, range) ==
    { vals[order[k] + 1].name : k \in RangeOf(range) }

\* The URI a name resolves to in a range: that of the first binding of the name.
ResolveIn(vals, order, range, name) ==
    vals[order[Min({ k \in RangeOf(range) : vals[order[k] + 1].name = name })] + 1].uri

\* The elements whose parent is an element.
NestedElements ==
    { n \in Ids : /\ Node(n).kind = "Element"
                  /\ Node(n).parent \in Ids
                  /\ Node(Node(n).parent).kind = "Element" }

\* C17 as stated: the bindings (prefix, URI) visible in the range of an
\* element are a superset of those visible in the range of its parent.
C17_BindingsSuperset ==
    \A n \in NestedElements :
        RangeBindings(ns_values, tree_order, Node(Node(n).parent).namespaces)
            \subseteq RangeBindings(ns_values, tree_order, Node(n).namespaces)

\* C17 amended: the prefixes bound in the range of an element are a superset
\* of those bound in the range of its parent, and each of them resolves on
\* the element to the URI it resolves to on the parent unless the element
\* itself declares that prefix.
C17_PrefixesSuperset ==
    /\ [](\A n \in NestedElements :
            RangeNames(ns_values, tree_order, Node(Node(n).parent).namespaces)
                \subseteq RangeNames(ns_values, tree_order, Node(n).namespaces))
    /\ [][(ElementEnds /\ result' = "Running" /\ Node(parent_id).kind = "Element") =>
            \A name \in RangeNames(ns_values, tree_order, Node(parent_id).namespaces) :
                OwnDecls(name) = {} =>
                    ResolveIn(ns_values', tree_order', Last(nodes').namespaces, name)
                      = ResolveIn(ns_values, tree_order, Node(parent_id).namespaces, name)]_vars

\* An element declares a prefix of its own and inherits a binding of its
\* parent.
C17_Witness ==
    \E n \in NestedElements :
        /\ Node(n).namespaces # Node(Node(n).parent).namespaces
        /\ RangeBindings(ns_values, tree_order, Node(Node(n).parent).namespaces) # {}
        /\ RangeBindings(ns_values, tree_order, Node(Node(n).parent).namespaces)
             \subseteq RangeBindings(ns_values, tree_order, Node(n).namespaces)
        /\ RangeBindings(ns_values, tree_order, Node(n).namespaces)
             # RangeBindings(ns_values, tree_order, Node(Node(n).parent).namespaces)

----------------------------------------------------------------------------
(* Scope of a redeclared prefix (C18) *)

\* The URI of the first declaration of the name on the element being opened.
OwnUri(name) == ns_values[tree_order[Min(OwnDecls(name))] + 1].uri

\* The tag name of the element just appended resolved to the binding
\* (prefix, uri).
TagResolvedTo(prefix, uri) ==
    /\ Last(nodes').tag_ns # NoneId
    /\ ns_values'[Last(nodes').tag_ns + 1] = [name |-> prefix, uri |-> uri]

\* C18: a declaration is a duplicate only among the declarations of the
\* element being opened: a prefix bound by an ancestor may be declared
\* anew; the element that does so, and so the elements below it, resolve
\* the prefix to the new URI, and an element that does not declare it
\* resolves it as its parent does, so that after the redeclaring element
\* is closed the ancestor's URI is in force again.
C18_RedeclarationIsScoped ==
    /\ [][(/\ IsDeclaration(last_token')
           /\ last_token'.value \notin { NS_XML_URI, NS_XMLNS_URI }
           /\ DeclaredName(last_token') # NS_XML_PREFIX
           /\ OwnDecls(DeclaredName(last_token')) = {})
            => /\ result' = "Running"
               /\ Len(tree_order') = Len(tree_order) + 1
               /\ ns_values'[Last(tree_order') + 1]
                    = [name |-> DeclaredName(last_token'), uri |-> last_token'.value]
               /\ namespace_start_idx' = namespace_start_idx]_vars
    /\ [][(ElementEnds /\ result' = "Running") =>
            /\ \A name \in { "n1", NoName } :
                  IF OwnDecls(name) # {}
                  THEN ResolveIn(ns_values', tree_order', Last(nodes').namespaces, name)
                         = OwnUri(name)
                  ELSE IF ParentDecls(name) # {}
                  THEN ResolveIn(ns_values', tree_order', Last(nodes').namespaces, name)
                         = ResolveIn(ns_values, tree_order,
                                     Node(parent_id).namespaces, name)
                  ELSE name \notin RangeNames(ns_values', tree_order',
                                              Last(nodes').namespaces)
            /\ tag_name.prefix # "" =>
                  TagResolvedTo(tag_name.prefix,
                                ResolveIn(ns_values', tree_order',
                                          Last(nodes').namespaces, tag_name.prefix))
            /\ namespace_start_idx' = Len(tree_order')]_vars

\* The events of <a xmlns:n1="u"><n1:a xmlns:n1="v"/><n1:a/></a>: the first
\* child is in the namespace v, the second in the namespace u.
C18_Witness ==
    /\ result = "Ok"
    /\ Len(nodes) = 4
    /\ Node(2).parent = 1
    /\ Node(3).parent = 1
    /\ "n1" \in RangeNames(ns_values, tree_order, Node(1).namespaces)
    /\ ResolveIn(ns_values, tree_order, Node(1).namespaces, "n1") = << "u" >>
    /\ Node(2).tag_ns # NoneId
    /\ Node(3).tag_ns # NoneId
    /\ ns_values[Node(2).tag_ns + 1] = [name |-> "n1", uri |-> << "v" >>]
    /\ ns_values[Node(3).tag_ns + 1] = [name |-> "n1", uri |-> << "u" >>]

----------------------------------------------------------------------------
(* An element without declarations shares its parent's range (C19) *)

\* The element being opened has pushed no declaration.
NoOwnDeclarations == namespace_start_idx = Len(tree_order)

\* C19: opening an element under an element without declaring a namespace
\* leaves the namespace log as it is (the start tag, every attribute that
\* is not a declaration and the end of the start tag push nothing), and
\* the element's namespace range is its parent's range itself.
C19_ParentRangeReused ==
    /\ [][NsElementStart => NothingPushed /\ NoOwnDeclarations']_vars
    /\ [][(NsAttribute /\ ~ IsDeclaration(last_token')) => NothingPushed]_vars
    /\ [][(/\ ElementEnds
           /\ result' = "Running"
           /\ Node(parent_id).kind = "Element"
           /\ NoOwnDeclarations)
            => /\ Last(nodes').namespaces = Node(parent_id).namespaces
               /\ NothingPushed]_vars

\* A nested element sharing a non-empty range with its parent, the log
\* holding nothing beyond the xml entry and that range.
C19_Witness ==
    \E n \in NestedElements :
        /\ Node(n).namespaces = Node(Node(n).parent).namespaces
        /\ Node(n).namespaces.start = 1
        /\ Node(n).namespaces.end = Len(tree_order)
        /\ Len(tree_order) > 1

----------------------------------------------------------------------------
(* Namespaces of attributes (C20) *)

\* The attribute stored for the k-th staged attribute by the element end.
Stored(k) == attributes'[Len(attributes) + k]

\* The index idx is one of the range of the element just appended and
\* binds the prefix to the URI visible on the element being ended.
VisibleBinding(idx, prefix) ==
    /\ idx # NoneId
    /\ ns_values'[idx + 1] = [name |-> prefix, uri |-> StagedUri(prefix)]
    /\ \E j \in RangeOf(Last(nodes').namespaces) : tree_order'[j] = idx

\* C20: the staged attributes are resolved at the element end, in staging
\* order, against the whole namespace range of the element: the prefix
\* xml gives index 0, no prefix gives no namespace whatever default
\* namespace is visible, any other prefix the binding visible on the
\* element, wherever its declaration stood among the attributes; a prefix
\* nothing binds makes the element end fail with UnknownNamespace, unless
\* an earlier attribute already failed it as duplicated.
C20_AttributeNamespaces ==
    /\ [][NsAttribute \/ Attribute => attributes' = attributes]_vars
    /\ [][(ElementEnds /\ current_attributes # << >>) =>
            /\ result' = "Running" =>
                 /\ Last(nodes').attributes
                      = ShortRange(Len(attributes),
                                   Len(attributes) + Len(current_attributes))
                 /\ Len(attributes') = Len(attributes) + Len(current_attributes)
                 /\ \A k \in 1..Len(current_attributes) :
                       /\ Stored(k).local_name = current_attributes[k].local
                       /\ IF current_attributes[k].prefix = NS_XML_PREFIX
                          THEN Stored(k).namespace_idx = 0
                          ELSE IF current_attributes[k].prefix = ""
                          THEN Stored(k).namespace_idx = NoneId
                          ELSE VisibleBinding(Stored(k).namespace_idx,
                                              current_attributes[k].prefix)
            /\ UnboundAttrs # {} =>
                 /\ result' \in { "UnknownNamespace", "DuplicatedAttribute" }
                 /\ (\A j \in Collisions : Min(UnboundAttrs) < j)
                       => /\ result' = "UnknownNamespace"
                          /\ err_info' = << current_attributes[Min(UnboundAttrs)].prefix >>
                 /\ result' = "DuplicatedAttribute"
                       => \E j \in Collisions : j < Min(UnboundAttrs)]_vars

\* An element with a default namespace and the prefix n1 declared, whose
\* unprefixed attribute has no namespace and whose n1 attribute has the
\* declared one.
C20_Witness ==
    /\ result \in { "Running", "Ok" }
    /\ Len(nodes) > 1
    /\ NoName \in RangeNames(ns_values, tree_order, Node(1).namespaces)
    /\ \E i, j \in RangeOf(Node(1).attributes) :
          /\ attributes[i].namespace_idx = NoneId
          /\ attributes[j].namespace_idx > 0
          /\ ns_values[attributes[j].namespace_idx + 1].name = "n1"

----------------------------------------------------------------------------
(* An element name with the prefix xmlns (C21) *)

\* C21: an ElementStart with the prefix xmlns fails at once with
\* InvalidElementNamePrefix, and the staged tag name, the after-text flag,
\* the arena, the tables and the staging lists stay as they were; with
\* any other prefix the name is staged and the flag reset.
C21_XmlnsElementPrefix ==
    /\ [][(ElementStart /\ last_token'.prefix = XMLNS) =>
            /\ result' = "InvalidElementNamePrefix"
            /\ UNCHANGED << tag_name, after_text, nodes, attributes, ns_values,
                            tree_order, namespace_start_idx, current_attributes,
                            awaiting_subtree, parent_prefixes, parent_id >>]_vars
    /\ [][(ElementStart /\ last_token'.prefix # XMLNS) =>
            /\ result' = "Running"
            /\ tag_name' = [prefix |-> last_token'.prefix, name |-> last_token'.local]
            /\ after_text' = FALSE]_vars

\* <a>, a text, then an element start with the prefix xmlns: the staged
\* name is still a and the flag still set.
C21_Witness ==
    /\ result = "InvalidElementNamePrefix"
    /\ last_token.kind = "ElementStart"
    /\ last_token.prefix = XMLNS
    /\ tag_name = [prefix |-> "", name |-> "a"]
    /\ after_text
    /\ awaiting_subtree # << >>
    /\ Len(nodes) = 3

----------------------------------------------------------------------------
(* The awaiting-subtree list across an append (C22) *)

\* The step appends a node to the arena.
Appends == Len(nodes') = Len(nodes) + 1

\* C22: when a node is appended, every id that was awaiting gets the new
\* node's id as next_subtree, and the list then holds the new node alone
\* when it is a Text node or an Empty element, and nothing when it is an
\* Open element.
C22_AwaitingPatchedOnAppend ==
    [][Appends =>
          /\ \A k \in 1..Len(awaiting_subtree) :
                nodes'[awaiting_subtree[k] + 1].next_subtree = Len(nodes)
          /\ awaiting_subtree' =
                IF Last(nodes').kind = "Text" \/ last_token'.kind = "Empty"
                THEN << Len(nodes) >>
                ELSE << >>
          /\ Last(nodes').next_subtree = NoneId]_vars

\* <a>, a text, </a>, a text: the first text and the element both awaited
\* and both point at the second text, which now awaits alone.
C22_Witness ==
    /\ Len(nodes) = 4
    /\ Node(3).kind = "Text"
    /\ Node(3).parent = 0
    /\ Node(2).kind = "Text"
    /\ Node(1).next_subtree = 3
    /\ Node(2).next_subtree = 3
    /\ awaiting_subtree = << 3 >>

----------------------------------------------------------------------------
(* The awaiting-subtree list across a close tag (C23) *)

\* The step is a close tag that process_element accepts.
AcceptedClose == ElementEndClose /\ result' = "Running"

\* C23 as stated: after each accepted close tag the awaiting-subtree list
\* is empty.
C23_AwaitingEmptyAfterClose ==
    [][AcceptedClose => awaiting_subtree' = << >>]_vars

\* C23: an accepted close tag pushes the id of the element it closes on
\* the awaiting-subtree list and removes nothing from it, the arena staying
\* as it is; the list loses ids only when a node is appended.
C23_ClosePushesClosedElement ==
    /\ [][AcceptedClose =>
            /\ awaiting_subtree' = Append(awaiting_subtree, parent_id)
            /\ parent_id' = Node(parent_id).parent
            /\ nodes' = nodes]_vars
    /\ [][(\E k \in 1..Len(awaiting_subtree) :
              \A j \in 1..Len(awaiting_subtree') :
                 awaiting_subtree'[j] # awaiting_subtree[k]) => Appends]_vars

\* <a>, a text, </a>: the text and the element closed after it both await.
C23_Witness ==
    /\ result = "Running"
    /\ last_token.kind = "Close"
    /\ parent_id = 0
    /\ awaiting_subtree = << 2, 1 >>
    /\ Node(2).kind = "Text"

----------------------------------------------------------------------------
(* A close tag with nothing staged (C24) *)

\* Under the current parent no element was opened.
NoElementAtLevel ==
    \A n \in Ids : Node(n).parent = parent_id => Node(n).kind # "Element"

\* The close tag of the step is not that of the open element.
StrayClose ==
    \/ Node(parent_id).kind # "Element"
    \/ close_tag_differs(last_token'.prefix, last_token'.local,
                         Last(parent_prefixes), Node(parent_id).local_name)

----------------------------------------------------------------------------
(* Decoded references are stored verbatim (C25) *)

IsPrefixOf(p, t) == Len(p) <= Len(t) /\ SubSeq(t, 1, Len(p)) = p

IsSuffixOf(p, t) == Len(p) <= Len(t) /\ SubSeq(t, Len(t) - Len(p) + 1, Len(t)) = p

\* The references of the input: the positions of its items that are one.
RefPositions(items) == { k \in 1..Len(items) : IsRef(items[k]) }

\* The result res of normalizing the items holds the bytes of the
\* reference at position k where the normalizer f put them: the output for
\* the items up to k ends with those bytes, and is the beginning of res.
Verbatim(f(_), items, k, res) ==
    /\ f(Flatten(SubSeq(items, 1, k))).kind = "Ok"
    /\ IsSuffixOf(CharToBytes(Decoded(items[k])), f(Flatten(SubSeq(items, 1, k))).text)
    /\ IsPrefixOf(f(Flatten(SubSeq(items, 1, k))).text, res.text)

\* C25: in a text and in an attribute value the bytes of a decoded
\* reference are stored as they are and nothing that follows alters them:
\* a CR from a reference stays a CR, and a TAB, LF or CR from a reference
\* in an attribute value does not become a space.
C25_ReferencesVerbatim ==
    /\ (step = "normalized" /\ norm.kind = "Ok") =>
          \A k \in RefPositions(raw) : Verbatim(normalize_text, raw, k, norm)
    /\ (astep = "normalized" /\ anorm.kind = "Ok") =>
          \A k \in RefPositions(araw) : Verbatim(normalize_attribute, araw, k, anorm)

\* &#13; followed by a literal LF: the text holds CR LF, the attribute
\* value CR and a space.
C25_Witness ==
    /\ raw = << RefCR, << LF >> >>
    /\ step = "normalized"
    /\ astep = "normalized"
    /\ norm.text = << CR, LF >>
    /\ anorm.text = << CR, SP >>

----------------------------------------------------------------------------
(* A CR LF pair split over two Text events (C26) *)

\* The step is a Text event beginning with a LF, merged into the node of a
\* Text event that ended with a literal CR.
SplitPair ==
    /\ Text
    /\ result' = "Running"
    /\ after_text
    /\ last_token.kind = "Text"
    /\ last_token.value # << >>
    /\ Last(last_token.value) = CR
    /\ Head(last_token'.value) = LF

----------------------------------------------------------------------------
(* References that do not decode (C27) *)

\* The items of a value that are no literal byte and no reference the
\* scanner decodes.
BadPositions(items) == { k \in 1..Len(items) : items[k] \in { BareAmp, RefUndefined } }

\* The error the claim gives for the first such item of the value.
ClaimedError(items) ==
    IF items[Min(BadPositions(items))] = RefUndefined
    THEN "UnknownEntityReference"
    ELSE "MalformedEntityReference"

\* C27: a text or an attribute value with a reference that fails to parse
\* gives MalformedEntityReference and no content; with a well-formed named
\* reference to an undefined entity it gives UnknownEntityReference.
C27_ReferenceErrors ==
    /\ (step = "normalized" /\ BadPositions(raw) # {}) =>
          norm = [kind |-> ClaimedError(raw), text |-> << >>]
    /\ (astep = "normalized" /\ BadPositions(araw) # {}) =>
          anorm = [kind |-> ClaimedError(araw), text |-> << >>]

----------------------------------------------------------------------------
(* The ceiling of the attribute table (C28) *)

WideLess(a, b) == a.hi < b.hi \/ (a.hi = b.hi /\ a.lo < b.lo)

\* The length of the attribute table, the attributes of earlier elements
\* included.
TableLen == wide_add(attributes_base, Len(attributes))

\* The length the table would have with the staged attributes committed.
TotalAfter == wide_add(TableLen, Len(current_attributes))

----------------------------------------------------------------------------
(* What a merge of text leaves alone (C29) *)

\* The step is a Text event merged into the previous text node.
Merges == Text /\ after_text /\ result' = "Running"

----------------------------------------------------------------------------
(* The arena and the tables only grow (C30) *)

\* What a step may change of a node already in the arena: last_child,
\* next_subtree and, for a Text node, the text.
KeptBut(old, new) ==
    new = [old EXCEPT !.last_child = new.last_child,
                      !.next_subtree = new.next_subtree,
                      !.text = IF old.kind = "Text" THEN new.text ELSE old.text]

\* C30: the node arena, the attribute table and the namespace log only
\* grow, their entries staying where they are; of a node already appended
\* only last_child, next_subtree and, for a Text node, the text change, the
\* text by getting longer at its end.
C30_AppendOnly ==
    [][/\ Len(nodes') >= Len(nodes)
       /\ IsPrefixOf(attributes, attributes')
       /\ IsPrefixOf(tree_order, tree_order')
       /\ IsPrefixOf(ns_values, ns_values')
       /\ \A i \in 1..Len(nodes) :
             /\ KeptBut(nodes[i], nodes'[i])
             /\ IsPrefixOf(nodes[i].text, nodes'[i].text)]_vars

\* An element with an attribute and a namespace of its own, closed after
\* two texts merged into one node: its last_child was set, and the text
\* node awaits its next subtree.
C30_Witness ==
    /\ result = "Ok"
    /\ Len(nodes) = 3
    /\ Len(attributes) = 1
    /\ Len(tree_order) = 2
    /\ Node(1).last_child = 2
    /\ Node(2).kind = "Text"
    /\ Len(Node(2).text) >= 2
    /\ ntexts = 2

----------------------------------------------------------------------------
(* The open-element stack (C31) *)

\* The elements among the current parent and its ancestors.
OpenElements ==
    { m \in Ids : Node(m).kind = "Element" /\ AncestorOrSelf(m, parent_id, Len(nodes)) }

StackAgrees ==
    /\ parent_id \in Ids
    /\ parent_prefixes # << >>
    /\ Len(parent_prefixes) = 1 + Cardinality(OpenElements)
    /\ Last(parent_prefixes) =
          IF parent_id = 0 THEN "" ELSE SourcePrefix(Node(parent_id))

OpenPushes ==
    /\ Len(parent_prefixes') = Len(parent_prefixes) + 1
    /\ SubSeq(parent_prefixes', 1, Len(parent_prefixes)) = parent_prefixes
    /\ parent_id' = Len(nodes)
    /\ Len(nodes') = Len(nodes) + 1
    /\ nodes'[parent_id' + 1].kind = "Element"
    /\ nodes'[parent_id' + 1].parent = parent_id

ClosePops ==
    /\ Len(parent_prefixes') = Len(parent_prefixes) - 1
    /\ parent_prefixes' = SubSeq(parent_prefixes, 1, Len(parent_prefixes) - 1)
    /\ parent_id' = Node(parent_id).parent

StackSteps ==
    /\ (ElementEndOpen /\ result' = "Running") => OpenPushes
    /\ (NsElementEndClose /\ result' = "Running") => ClosePops
    /\ ((ElementEndEmpty \/ Text) /\ result' = "Running")
          => UNCHANGED << parent_prefixes, parent_id >>

\* C31: after every accepted event the open-element stack is not empty, its
\* length is one plus the number of elements among the current parent and
\* its ancestors, and its top is the source prefix of the current parent
\* (empty for the root); an accepted ElementEnd::Open pushes one entry and
\* makes the new element the parent, an accepted ElementEnd::Close pops one
\* and moves the parent to the closed element's parent, and
\* ElementEnd::Empty and Text leave both unchanged.
C31_StackFollowsParent ==
    /\ [](result = "Running" => StackAgrees)
    /\ [][StackSteps]_vars

\* A prefixed element is open inside another element, a text was appended
\* in it, and the stack holds one entry for each of them.
C31_Witness ==
    /\ result = "Running"
    /\ ~ in_tag
    /\ Len(parent_prefixes) = 3
    /\ Last(parent_prefixes) = "n1"
    /\ parent_id = 2
    /\ Len(nodes) = 4
    /\ Node(3).kind = "Text"
    /\ last_token.kind = "Text"

----------------------------------------------------------------------------
(* Sibling links (C32) *)

\* The children of p by their parent field.
KidsOf(p) == { n \in Ids : Node(n).parent = p }

LastChildIsGreatestKid(p) ==
    IF KidsOf(p) = { } THEN Node(p).last_child = NoneId
    ELSE Node(p).last_child = Max(KidsOf(p))

EarlierKids(n) == { m \in KidsOf(Node(n).parent) : m < n }

PrevSiblingIsNextSmallerKid(n) ==
    IF EarlierKids(n) = { } THEN Node(n).prev_sibling = NoneId
    ELSE Node(n).prev_sibling = Max(EarlierKids(n))

\* Following prev_sibling from last_child(p) gives the children of p, each
\* once, in decreasing id order (ChildrenOf lists the walk backwards).
WalkEnumeratesKids(p) ==
    /\ { ChildrenOf(p)[k] : k \in 1..Len(ChildrenOf(p)) } = KidsOf(p)
    /\ \A j, k \in 1..Len(ChildrenOf(p)) :
          j < k => ChildrenOf(p)[j] < ChildrenOf(p)[k]

\* C32: after every accepted event, last_child of every node is its child
\* with the greatest id (absent iff it has no child), prev_sibling of every
\* non-root node is the child of its parent with the greatest id below its
\* own (absent iff it is the first child), and the walk along prev_sibling
\* from last_child enumerates exactly the children in decreasing id order.
C32_SiblingLinksConsistent ==
    result \in { "Running", "Ok" } =>
        /\ \A p \in Ids : LastChildIsGreatestKid(p) /\ WalkEnumeratesKids(p)
        /\ \A n \in Ids \ { 0 } : PrevSiblingIsNextSmallerKid(n)

\* A node with three children, an element between two texts.
C32_Witness ==
    /\ result = "Running"
    /\ \E p \in Ids :
          /\ Cardinality(KidsOf(p)) = 3
          /\ Node(Node(p).last_child).kind = "Text"
          /\ Node(Node(p).last_child).prev_sibling # NoneId
          /\ Node(Node(Node(p).last_child).prev_sibling).kind = "Element"

----------------------------------------------------------------------------
(* next_subtree is written once (C33) *)

\* The current parent and its ancestors.
OpenNodes == { m \in Ids : AncestorOrSelf(m, parent_id, Len(nodes)) }

Awaiting == { awaiting_subtree[k] : k \in 1..Len(awaiting_subtree) }

NextSubtreeAbsentWhileOpen ==
    \A m \in OpenNodes : Node(m).next_subtree = NoneId

AwaitingUnsetAndClosed ==
    \A id \in Awaiting :
        id \in Ids /\ Node(id).next_subtree = NoneId /\ id \notin OpenNodes

NextSubtreeAhead ==
    \A n \in Ids : Node(n).next_subtree # NoneId => Node(n).next_subtree > n

NextSubtreeKept ==
    \A n \in Ids :
        Node(n).next_subtree # NoneId =>
            /\ Len(nodes') >= n + 1
            /\ nodes'[n + 1].next_subtree = Node(n).next_subtree

\* C33: next_subtree of a node is written at most once: it is absent while
\* the node is the current parent or one of its ancestors, every id in the
\* awaiting list has it absent and is not open, and once set it is greater
\* than the node's own id and no later step changes it.
C33_NextSubtreeWrittenOnce ==
    /\ [](result \in { "Running", "Ok" } =>
            NextSubtreeAbsentWhileOpen /\ AwaitingUnsetAndClosed /\ NextSubtreeAhead)
    /\ [][NextSubtreeKept]_vars

\* t<a>t</a>t: the first text got its next_subtree when the element was
\* appended and kept it while the element and its text got theirs later.
C33_Witness ==
    /\ result = "Running"
    /\ Len(nodes) = 5
    /\ Node(1).next_subtree = 2
    /\ Node(2).kind = "Element"
    /\ Node(2).next_subtree = 4
    /\ Node(3).next_subtree = 4
    /\ awaiting_subtree = << 4 >>

----------------------------------------------------------------------------
(* The after-text flag points at the last text of the parent (C34) *)

LastIsTextOfParent ==
    /\ Last(nodes).kind = "Text"
    /\ Last(nodes).parent = parent_id
    /\ Node(parent_id).last_child = Len(nodes) - 1

AcceptedTagEvent ==
    /\ ElementStart \/ ElementEndOpen \/ ElementEndEmpty \/ ElementEndClose
    /\ result' = "Running"

\* The nodes a step rewrites.
Rewritten == { n \in Ids : Len(nodes') < n + 1 \/ nodes'[n + 1] # Node(n) }

\* C34: whenever after_text is true the last node of the arena is a Text
\* node, its parent is the current parent and it is that parent's
\* last_child; after_text is false after every accepted ElementStart and
\* ElementEnd event; so a merge rewrites nothing but a Text node of the
\* current parent.
C34_AfterTextMeansLastText ==
    /\ [](after_text => LastIsTextOfParent)
    /\ [][(AcceptedTagEvent => ~ after_text')
           /\ (Merges => \A n \in Rewritten :
                            Node(n).kind = "Text" /\ Node(n).parent = parent_id)]_vars

\* <a>t</a>tt: the text after the close tag became a node of the root, and
\* the next text was merged into it, not into the text of the element.
C34_Witness ==
    /\ result = "Running"
    /\ after_text
    /\ parent_id = 0
    /\ Len(nodes) = 4
    /\ Node(2).kind = "Text"
    /\ Node(2).parent = 1
    /\ Node(2).text = << "a" >>
    /\ Node(3).parent = 0
    /\ Node(3).text = << "a", "a" >>

----------------------------------------------------------------------------
(* The scroll offset of the reader (C35) *)

\* max(0, lines - (terminal_height - 3))
MaxScroll(n, height) == IF n - (height - 3) > 0 THEN n - (height - 3) ELSE 0

\* A key that reached the match and left the loop running.
HandledKey ==
    /\ KeyQuit \/ KeyNext \/ KeyPrev \/ KeyUp \/ KeyDown \/ KeyOther
    /\ terminal_size = last_size
    /\ reading' = "Running"

\* C35: after every handled key event 0 <= scroll <= max(0, lines -
\* (terminal_height - 3)) for the lines of the current chapter and the
\* current height of the terminal, whatever Up, Down, chapter changes and
\* resizes came before; a chapter change sets scroll to 0, Up at scroll 0
\* and Down at the maximum leave scroll unchanged.
C35_ScrollWithinBounds ==
    [][/\ HandledKey =>
            scroll' >= 0 /\ scroll' <= MaxScroll(Len(lines'), terminal_size'[2])
       /\ (HandledKey /\ chp_num' # chp_num) => scroll' = 0
       /\ (HandledKey /\ KeyUp /\ scroll = 0) => scroll' = scroll
       /\ (HandledKey /\ KeyDown /\ scroll = MaxScroll(Len(lines), terminal_size[2]))
            => scroll' = scroll]_vars

----------------------------------------------------------------------------
(* The chapters and the table of contents of a loaded package (C36) *)

\* The href the manifest element gives an id: the last item with that id.
HrefOf(id) ==
    package.manifest[Max({ k \in 1..Len(package.manifest) :
                             package.manifest[k].id = id })].href

ManifestIds == { package.manifest[k].id : k \in 1..Len(package.manifest) }

\* The entry the navigation document gives a file: the last point for it.
NavOf(file) ==
    package.toc[Max({ k \in 1..Len(package.toc) : package.toc[k].path[1] = file })]

NavFiles == { package.toc[k].path[1] : k \in 1..Len(package.toc) }

\* The k-th spine child cannot give a chapter: no idref, an idref that is
\* not in the manifest, or an idref an earlier spine child used.
BadItemref(k) ==
    \/ package.spine[k] = NoAttr
    \/ package.spine[k] \notin ManifestIds
    \/ \E j \in 1..(k - 1) : package.spine[j] = package.spine[k]

ChaptersInSpineOrder ==
    /\ Len(chapters) = spine_idx
    /\ Len(chapters) <= Len(package.spine)
    /\ \A k \in 1..Len(chapters) :
          /\ ~ BadItemref(k)
          /\ chapters[k] = Chapter(package.spine[k], HrefOf(package.spine[k]))

\* Each entry is (spine index, title, path) of a chapter whose href the
\* navigation map had, and no two entries are for the same href.
TocFromNav ==
    /\ \A e \in 1..Len(toc) :
          /\ toc[e][1] + 1 \in 1..Len(chapters)
          /\ chapters[toc[e][1] + 1].relative_path \in NavFiles
          /\ toc[e][2] = NavOf(chapters[toc[e][1] + 1].relative_path).text
          /\ toc[e][3] = NavOf(chapters[toc[e][1] + 1].relative_path).path
    /\ \A d, e \in 1..Len(toc) :
          d < e => /\ toc[d][1] < toc[e][1]
                   /\ chapters[toc[d][1] + 1].relative_path
                        # chapters[toc[e][1] + 1].relative_path

\* C36: the chapter list is built in spine order, one chapter per spine
\* itemref, each from an id still in the manifest map, which is consumed:
\* an itemref without idref, with an idref not in the manifest or with an
\* idref already used makes the load fail with a parse error, and only
\* those do; a table-of-contents entry (spine index, title, path) is
\* recorded only for a chapter whose href the navigation map has, at most
\* once per href.
C36_ChaptersFollowSpine ==
    /\ [](loaded \in { "spine", "Ok", "ParseError" } =>
            ChaptersInSpineOrder /\ TocFromNav)
    /\ [](loaded = "Ok" => Len(chapters) = Len(package.spine))
    /\ [](loaded = "ParseError" => BadItemref(spine_idx + 1))
    /\ [][SpineItem => (loaded' = "ParseError" <=> BadItemref(spine_idx + 1))]_vars

\* Items c1 -> h1 and c2 -> h1, a navigation point for h1, spine c1 c2:
\* two chapters of the same href and one entry, for the first of them.
C36_Witness ==
    /\ loaded = "Ok"
    /\ Len(chapters) = 2
    /\ chapters[1] = Chapter("c1", "h1")
    /\ chapters[2] = Chapter("c2", "h1")
    /\ toc = << << 0, "T1", << "h1", "s" >> >> >>

====
